---- MODULE Spec2Model ----
(***************************************************************************)
(* State-machine model of the accounting and group-decision core of the    *)
(* CHAS backend: CC balances (spend, transfer, refund, daily reset,        *)
(* sunset), tip-to-tip escrow proposals and moderator elections.           *)
(*                                                                         *)
(* Every call to the row store (one PostgREST request) is one atomic step. *)
(* Request handlers run on the web framework's thread pool and interleave  *)
(* at these steps; the scheduled jobs are coroutines without await points, *)
(* so at most one job runs at a time, interleaved with the handlers.       *)
(***************************************************************************)
EXTENDS Integers, Sequences, FiniteSets, Bags, TLC

(* ------------------------------ bounds --------------------------------- *)

\* operations (requests and job runs) started in one behaviour
MaxOps == 3
\* tip-to-tip proposals created in one behaviour
MaxProps == 1
\* elections created in one behaviour
MaxElections == 2
\* borrow requests created in one behaviour
MaxBorrows == 1
\* max_entries of the cache (settings: 1024 and 5000), scaled down
CacheMaxEntries == 2
\* the monotonic clock stops here
MaxMono == 2
\* the clock advances in steps of TickHours up to MaxNow
TickHours == 24
MaxNow == 48

(* ------------------------- program constants --------------------------- *)

\* CCService.ensure_balance: daily_budget default
DefaultDailyBudget == 100
\* DeclarationCreate.cc_spent bounds
MinDeclare == 1
MaxDeclare == 20
\* BorrowService.create_request: the least amount
MinBorrow == 1
\* TipToTipService.create: minimum stake
MinStake == 50
\* TipToTipService.create: deadline = now + 24 hours
DeadlineHours == 24

Users == {"u1", "u2", "u3"}
Handlers == {"h1", "h2"}
HandlerRank(p) == IF p = "h1" THEN 1 ELSE 2
NoUser == "none"
NoRef == 0

VARIABLES
    balances,      \* cc_balances: user -> row (one community)
    ledger,        \* ledger_entries: bag of rows
    declarations,  \* declarations rows, in insertion order
    messages,      \* chat_messages: bag of rows
    borrows,       \* borrow_requests rows, in insertion order
    sunsets,       \* users holding a sunset_entries row for today
    memberRows,    \* community_members rows: <<user, role>>
    proposals,     \* tip_to_tip_proposals rows, in insertion order (id = index)
    votes,         \* tip_to_tip_votes rows, in insertion order
    elections,     \* elections rows, in insertion order (id = index)
    evotes,        \* election_votes rows, in insertion order
    now,           \* the clock, in hours
    hs,            \* request handlers: handler -> frame
    job,           \* the scheduler's running job: frame
    nops,          \* operations (requests and job runs) started so far
    spentOk,       \* user -> sum of the amounts of the spend writes executed
    duplicates,    \* user -> cc_balances rows of the user beyond the first
    refunded,      \* proposal id -> number of refund writes executed for it
    cache,         \* one in-process cache: its entries in insertion order
    callers,       \* threads calling _cache_get / _cache_set: thread -> frame
    mono,          \* time.monotonic(), in seconds
    streak         \* a call of compute_streaks: its argument and its result

balVars == <<balances, spentOk, duplicates>>
docVars == <<declarations, messages, borrows>>
tipVars == <<proposals, votes, refunded>>
elecVars == <<elections, evotes>>
cacheVars == <<cache, callers, mono>>
envVars == <<memberRows, now, sunsets, cacheVars, streak>>

vars == <<balVars, ledger, docVars, tipVars, elecVars, envVars, hs, job, nops>>

(* ------------------------------ rows ----------------------------------- *)

BalanceRow(budget, spent, remaining, debt, stamp) ==
    [daily_budget |-> budget, spent_today |-> spent, remaining |-> remaining,
     debt |-> debt, last_reset |-> stamp]

\* CCService.ensure_balance: the row inserted for a new member
FreshBalance(budget) == BalanceRow(budget, 0, budget, 0, 0)

NoRow == BalanceRow(0, 0, 0, 0, 0)

LedgerEntry(user, type, amount, ref) ==
    [user |-> user, type |-> type, amount |-> amount, ref |-> ref]

IdleFrame ==
    [op |-> "idle", pc |-> "idle", u |-> NoUser, v |-> NoUser, amt |-> 0,
     rb |-> NoRow, rb2 |-> NoRow, ref |-> NoRef, choice |-> "", out |-> "",
     err |-> "", rows |-> <<>>, actor |-> NoUser]

IdleJob ==
    [op |-> "idle", pc |-> "idle", list |-> <<>>, cur |-> NoRow, ret |-> <<>>,
     at |-> 0]

\* the handler's call returns or raises: its local rows are dropped
Done(h) == [h EXCEPT !.pc = "done", !.rb = NoRow, !.rb2 = NoRow, !.rows = <<>>]
Fail(h, code) == [Done(h) EXCEPT !.err = code]

\* all orders in which a select without a total order can return a set
Orders(S) ==
    {s \in [1..Cardinality(S) -> S] :
        \A i, j \in 1..Cardinality(S) : i # j => s[i] # s[j]}

\* insert: one more copy of the row in the table
AddRow(table, row) == table (+) SetToBag({row})

Min(a, b) == IF a < b THEN a ELSE b
Max(a, b) == IF a > b THEN a ELSE b

\* the distinct users of community_members
Members == {r[1] : r \in memberRows}
RolesOf(u) == {r[2] : r \in {x \in memberRows : x[1] = u}}

(* ---------------------------- CCService -------------------------------- *)

\* mutants of the funds check: only an empty balance refuses; the comparison
\* is inverted
SpendRefusedLax(row, amount) == row.remaining <= 0
SpendRefusedInverted(row, amount) == row.remaining > amount

\* mutant of the funds check: nothing is refused
SpendRefusedNever(row, amount) == FALSE

\* spend_cc: the funds check on the row just read
SpendRefused(row, amount) == row.remaining < amount

\* spend_cc: the update payload computed from the row read
SpendPayload(row, stored, amount) ==
    [stored EXCEPT !.spent_today = row.spent_today + amount,
                   !.remaining = row.remaining - amount]

\* mutant of the transfer: the lender's row takes the debt too
LenderPayloadTakesDebt(row, stored, amount) ==
    [stored EXCEPT !.remaining = row.remaining - amount,
                   !.spent_today = row.spent_today + amount,
                   !.debt = row.debt + amount]

\* transfer: payloads computed from the two rows read
LenderPayload(row, stored, amount) ==
    [stored EXCEPT !.remaining = row.remaining - amount,
                   !.spent_today = row.spent_today + amount]

BorrowerPayload(row, stored, amount) ==
    [stored EXCEPT !.remaining = row.remaining + amount,
                   !.debt = row.debt + amount]

\* mutant of the refund: spent_today is lowered without a floor
RefundPayloadNoFloor(row, stored, amount) ==
    [stored EXCEPT !.remaining = row.remaining + amount,
                   !.spent_today = row.spent_today - amount]

\* refund_tip_to_tip: payload computed from the row read
RefundPayload(row, stored, amount) ==
    [stored EXCEPT !.remaining = row.remaining + amount,
                   !.spent_today = Max(0, row.spent_today - amount)]

\* mutant of the reset: the whole debt is repaid, not at most the budget
ResetPayloadNoCap(row, stored, stamp) ==
    IF row.debt > 0
    THEN [stored EXCEPT !.debt = 0,
                        !.remaining = row.daily_budget - row.debt,
                        !.spent_today = row.debt,
                        !.last_reset = stamp]
    ELSE [stored EXCEPT !.remaining = row.daily_budget,
                        !.spent_today = 0,
                        !.last_reset = stamp]

\* reset_balance_with_debt: payload computed from the row passed in
ResetPayload(row, stored, stamp) ==
    IF row.debt > 0
    THEN LET repayment == Min(row.daily_budget, row.debt)
         IN [stored EXCEPT !.debt = row.debt - repayment,
                           !.remaining = row.daily_budget - repayment,
                           !.spent_today = repayment,
                           !.last_reset = stamp]
    ELSE [stored EXCEPT !.remaining = row.daily_budget,
                        !.spent_today = 0,
                        !.last_reset = stamp]

\* daily_sunset: payload computed from the row listed
SunsetPayload(row, stored) ==
    [stored EXCEPT !.remaining = 0,
                   !.spent_today = row.spent_today + row.remaining]

(* --------------------------- frame helpers ----------------------------- *)

\* a worker of the thread pool is free: it has no request, or its last
\* request has returned (its frame keeps that request's result)
Free(p) == hs[p].pc \in {"idle", "done"}

\* a request arrives and is given to a free worker; the workers are
\* interchangeable, so the first free one takes it
Begin(p, frame) ==
    /\ Free(p)
    /\ \A q \in Handlers : Free(q) => HandlerRank(p) <= HandlerRank(q)
    /\ nops < MaxOps
    /\ hs' = [hs EXCEPT ![p] = frame]
    /\ nops' = nops + 1

At(p, op, pc) == hs[p].op = op /\ hs[p].pc = pc
AtPc(p, pc) == hs[p].pc = pc

\* what a step leaves alone
BeginOnly == UNCHANGED <<balVars, ledger, docVars, tipVars, elecVars, envVars, job>>
ReadOnly == UNCHANGED <<balVars, ledger, docVars, tipVars, elecVars, envVars, job, nops>>
BalanceOnly == UNCHANGED <<ledger, docVars, tipVars, elecVars, envVars, job, nops>>
LedgerOnly == UNCHANGED <<balVars, docVars, tipVars, elecVars, envVars, job, nops>>

\* the step that follows spend_cc in its callers
AfterSpend(op) == IF op = "declare" THEN "decl_insert" ELSE "prop_insert"

\* the step that follows transfer in its callers
AfterTransfer(op) == IF op = "respond" THEN "borrow_approve" ELSE "done"

\* mutant of the refund's continuation: no caller writes the ledger entry
AfterRefundNoLedger(op) == "done"

\* the step that follows refund_tip_to_tip in its callers
AfterRefund(op) == IF op = "tvote" THEN "refund_ledger" ELSE "done"

(* ------------------- CCService.spend_cc (two calls) -------------------- *)

\* get_balance, then the funds check
SpendRead(p) ==
    /\ AtPc(p, "spend_read")
    /\ LET row == balances[hs[p].u]
       IN hs' = [hs EXCEPT ![p] =
                    IF SpendRefused(row, hs[p].amt)
                    THEN Fail(hs[p], "INSUFFICIENT_CC")
                    ELSE [hs[p] EXCEPT !.pc = "spend_write", !.rb = row]]
    /\ ReadOnly

\* update cc_balances with the payload computed from the row read
SpendWrite(p) ==
    /\ AtPc(p, "spend_write")
    /\ LET u == hs[p].u
       IN /\ balances' = [balances EXCEPT
                             ![u] = SpendPayload(hs[p].rb, balances[u], hs[p].amt)]
          /\ spentOk' = [spentOk EXCEPT ![u] = @ + hs[p].amt]
          /\ UNCHANGED duplicates
    /\ hs' = [hs EXCEPT ![p].pc = AfterSpend(hs[p].op)]
    /\ BalanceOnly

(* -------------- ChamberService.create_declaration_message -------------- *)

\* ensure_community_member, then spend_cc
StartDeclare(p, u, amount) ==
    /\ Begin(p, IF u \in Members
                THEN [IdleFrame EXCEPT !.op = "declare", !.pc = "spend_read",
                                       !.u = u, !.amt = amount]
                ELSE Fail([IdleFrame EXCEPT !.op = "declare", !.u = u,
                                            !.amt = amount], "FORBIDDEN"))
    /\ BeginOnly

\* DeclarationService.create_declaration: insert into declarations
DeclInsert(p) ==
    /\ At(p, "declare", "decl_insert")
    /\ LET id == Len(declarations) + 1
       IN /\ declarations' = Append(declarations,
                [id |-> id, user |-> hs[p].u, cc_spent |-> hs[p].amt])
          /\ hs' = [hs EXCEPT ![p].pc = "msg_insert", ![p].ref = id]
    /\ UNCHANGED <<balVars, ledger, messages, borrows, tipVars, elecVars, envVars,
                   job, nops>>

\* insert the chat message of type declaration
MsgInsert(p) ==
    /\ At(p, "declare", "msg_insert")
    /\ messages' = AddRow(messages,
            [user |-> hs[p].u, type |-> "declaration", ref |-> hs[p].ref])
    /\ hs' = [hs EXCEPT ![p].pc = "decl_ledger"]
    /\ UNCHANGED <<balVars, ledger, declarations, borrows, tipVars, elecVars,
                   envVars, job, nops>>

\* LedgerService.create_entry of type declaration, amount -cc_spent
DeclLedger(p) ==
    /\ At(p, "declare", "decl_ledger")
    /\ ledger' = AddRow(ledger,
            LedgerEntry(hs[p].u, "declaration", -hs[p].amt, hs[p].ref))
    /\ hs' = [hs EXCEPT ![p] = Done(hs[p])]
    /\ LedgerOnly

(* ----------------------- CCService.transfer ---------------------------- *)

StartTransfer(p, lender, borrower, amount) ==
    /\ Begin(p, [IdleFrame EXCEPT !.op = "transfer", !.pc = "xfer_read_l",
                                  !.u = lender, !.v = borrower, !.amt = amount])
    /\ BeginOnly

\* get_balance(lender)
XferReadLender(p) ==
    /\ AtPc(p, "xfer_read_l")
    /\ hs' = [hs EXCEPT ![p].pc = "xfer_read_b", ![p].rb = balances[hs[p].u]]
    /\ ReadOnly

\* get_balance(borrower), then the funds check on the lender's row
XferReadBorrower(p) ==
    /\ AtPc(p, "xfer_read_b")
    /\ hs' = [hs EXCEPT ![p] =
                 IF SpendRefused(hs[p].rb, hs[p].amt)
                 THEN Fail(hs[p], "INSUFFICIENT_CC")
                 ELSE [hs[p] EXCEPT !.pc = "xfer_write_l",
                                    !.rb2 = balances[hs[p].v]]]
    /\ ReadOnly

\* update the lender's row
XferWriteLender(p) ==
    /\ AtPc(p, "xfer_write_l")
    /\ balances' = [balances EXCEPT
            ![hs[p].u] = LenderPayload(hs[p].rb, balances[hs[p].u], hs[p].amt)]
    /\ hs' = [hs EXCEPT ![p].pc = "xfer_write_b"]
    /\ UNCHANGED <<spentOk, duplicates>>
    /\ BalanceOnly

\* update the borrower's row
XferWriteBorrower(p) ==
    /\ AtPc(p, "xfer_write_b")
    /\ balances' = [balances EXCEPT
            ![hs[p].v] = BorrowerPayload(hs[p].rb2, balances[hs[p].v], hs[p].amt)]
    /\ hs' = [hs EXCEPT ![p] = IF AfterTransfer(hs[p].op) = "done"
                               THEN Done(hs[p])
                               ELSE [hs[p] EXCEPT !.pc = AfterTransfer(hs[p].op)]]
    /\ UNCHANGED <<spentOk, duplicates>>
    /\ BalanceOnly

(* --------------------------- BorrowService ----------------------------- *)

\* create_request: the checks on the users and the amount, the membership
StartBorrowCreate(p, borrower, lender, amount) ==
    /\ Len(borrows)
         + Cardinality({q \in Handlers : hs[q].op = "bcreate" /\ ~Free(q)})
         < MaxBorrows
    /\ Begin(p, LET f == [IdleFrame EXCEPT !.op = "bcreate", !.u = lender,
                                           !.v = borrower, !.amt = amount]
                IN IF borrower = lender \/ amount < MinBorrow
                   THEN Fail(f, "INVALID_INPUT")
                   ELSE IF borrower \notin Members \/ lender \notin Members
                   THEN Fail(f, "FORBIDDEN")
                   ELSE [f EXCEPT !.pc = "borrow_insert"])
    /\ BeginOnly

\* create_request: insert the request, pending
BorrowInsert(p) ==
    /\ At(p, "bcreate", "borrow_insert")
    /\ borrows' = Append(borrows,
            [borrower |-> hs[p].v, lender |-> hs[p].u, amount |-> hs[p].amt,
             status |-> "pending"])
    /\ hs' = [hs EXCEPT ![p] = [Done(hs[p]) EXCEPT !.ref = Len(borrows) + 1]]
    /\ UNCHANGED <<balVars, ledger, declarations, messages, tipVars, elecVars,
                   envVars, job, nops>>

\* respond: get_request, the lender check, the status check; an approval
\* goes on with transfer
\* mutant of respond: anyone may respond
StartRespondAnyActor(p, rid, actor, action) ==
    /\ rid \in 1..Len(borrows)
    /\ Begin(p, LET f == [IdleFrame EXCEPT !.op = "respond", !.ref = rid,
                                           !.actor = actor,
                                           !.u = borrows[rid].lender,
                                           !.v = borrows[rid].borrower,
                                           !.amt = borrows[rid].amount,
                                           !.choice = action]
                IN IF borrows[rid].status # "pending"
                   THEN Fail(f, "CONFLICT")
                   ELSE IF action = "approved"
                   THEN [f EXCEPT !.pc = "xfer_read_l"]
                   ELSE [f EXCEPT !.pc = "borrow_decline"])
    /\ BeginOnly

StartRespond(p, rid, actor, action) ==
    /\ rid \in 1..Len(borrows)
    /\ Begin(p, LET f == [IdleFrame EXCEPT !.op = "respond", !.ref = rid,
                                           !.actor = actor,
                                           !.u = borrows[rid].lender,
                                           !.v = borrows[rid].borrower,
                                           !.amt = borrows[rid].amount,
                                           !.choice = action]
                IN IF borrows[rid].lender # actor THEN Fail(f, "FORBIDDEN")
                   ELSE IF borrows[rid].status # "pending"
                   THEN Fail(f, "CONFLICT")
                   ELSE IF action = "approved"
                   THEN [f EXCEPT !.pc = "xfer_read_l"]
                   ELSE [f EXCEPT !.pc = "borrow_decline"])
    /\ BeginOnly

\* what the steps of respond on the request table leave alone
BorrowOnly ==
    UNCHANGED <<balVars, ledger, declarations, messages, tipVars, elecVars,
                envVars, job, nops>>

\* respond: after the transfer, update the request by id to approved
BorrowApprove(p) ==
    /\ At(p, "respond", "borrow_approve")
    /\ borrows' = [borrows EXCEPT ![hs[p].ref].status = "approved"]
    /\ hs' = [hs EXCEPT ![p].pc = "borrow_given"]
    /\ BorrowOnly

\* respond: the lender's ledger entry, borrow_given, -amount
BorrowGiven(p) ==
    /\ At(p, "respond", "borrow_given")
    /\ ledger' = AddRow(ledger,
            LedgerEntry(hs[p].u, "borrow_given", -hs[p].amt, hs[p].ref))
    /\ hs' = [hs EXCEPT ![p].pc = "borrow_received"]
    /\ LedgerOnly

\* respond: the borrower's ledger entry, borrow_received, +amount
BorrowReceived(p) ==
    /\ At(p, "respond", "borrow_received")
    /\ ledger' = AddRow(ledger,
            LedgerEntry(hs[p].v, "borrow_received", hs[p].amt, hs[p].ref))
    /\ hs' = [hs EXCEPT ![p].pc = "borrow_msg", ![p].out = "approved"]
    /\ LedgerOnly

\* respond: update the request by id to declined
BorrowDecline(p) ==
    /\ At(p, "respond", "borrow_decline")
    /\ borrows' = [borrows EXCEPT ![hs[p].ref].status = "declined"]
    /\ hs' = [hs EXCEPT ![p].pc = "borrow_msg", ![p].out = "declined"]
    /\ BorrowOnly

\* respond_borrow: the system message in the chamber
BorrowMsg(p) ==
    /\ At(p, "respond", "borrow_msg")
    /\ messages' = AddRow(messages,
            [user |-> hs[p].u, type |-> "system", ref |-> NoRef])
    /\ hs' = [hs EXCEPT ![p] = Done(hs[p])]
    /\ UNCHANGED <<balVars, ledger, declarations, borrows, tipVars, elecVars,
                   envVars, job, nops>>

(* ------------------- CCService.refund_tip_to_tip ----------------------- *)

\* refund_tip_to_tip called for user v with amount amt
StartRefund(p, u, amount) ==
    /\ Begin(p, [IdleFrame EXCEPT !.op = "refund", !.pc = "refund_read",
                                  !.v = u, !.amt = amount])
    /\ BeginOnly

\* get_balance
RefundRead(p) ==
    /\ AtPc(p, "refund_read")
    /\ hs' = [hs EXCEPT ![p].pc = "refund_write", ![p].rb = balances[hs[p].v]]
    /\ ReadOnly

\* update cc_balances with the payload computed from the row read
RefundWrite(p) ==
    /\ AtPc(p, "refund_write")
    /\ balances' = [balances EXCEPT
            ![hs[p].v] = RefundPayload(hs[p].rb, balances[hs[p].v], hs[p].amt)]
    /\ refunded' = IF hs[p].op = "tvote"
                   THEN [refunded EXCEPT ![hs[p].ref] = @ + 1]
                   ELSE refunded
    /\ hs' = [hs EXCEPT ![p] = IF AfterRefund(hs[p].op) = "done"
                               THEN Done(hs[p])
                               ELSE [hs[p] EXCEPT !.pc = AfterRefund(hs[p].op)]]
    /\ UNCHANGED <<spentOk, duplicates, ledger, docVars, proposals, votes, elecVars, envVars,
                   job, nops>>

(* --------------------------- scheduled jobs ---------------------------- *)

\* the scheduler starts a job: one job at a time (the jobs are coroutines
\* on one event loop and never await)
JobBegin(frame) ==
    /\ job.pc \in {"idle", "done"}
    /\ nops < MaxOps
    /\ job' = frame
    /\ nops' = nops + 1

\* mutant of the loop: every second row is skipped
NextItemSkipsRow(j, pc) ==
    IF Len(j.list) <= 2
    THEN [j EXCEPT !.pc = "done", !.list = <<>>]
    ELSE [j EXCEPT !.pc = pc, !.list = Tail(Tail(j.list))]

\* the job's loop moves to its next row, or ends
NextItem(j, pc) ==
    IF Len(j.list) <= 1
    THEN [j EXCEPT !.pc = "done", !.list = <<>>]
    ELSE [j EXCEPT !.pc = pc, !.list = Tail(j.list)]

\* the rows a select returns, in one of the orders the store may use
Listing(S, order) ==
    [i \in 1..Cardinality(S) |-> [user |-> order[i], row |-> balances[order[i]]]]

JobOnly == UNCHANGED <<balVars, ledger, docVars, tipVars, elecVars, envVars, hs, nops>>

\* daily_cc_reset: list_balances
StartReset ==
    /\ \E order \in Orders(Members) :
          JobBegin([IdleJob EXCEPT !.op = "reset", !.pc = "reset_write",
                                   !.list = Listing(Members, order)])
    /\ UNCHANGED <<balVars, ledger, docVars, tipVars, elecVars, envVars, hs>>

\* reset_balance_with_debt on the listed row
ResetWrite ==
    /\ job.op = "reset" /\ job.pc = "reset_write"
    /\ LET u == job.list[1].user
           row == ResetPayload(job.list[1].row, balances[u], now)
       IN /\ balances' = [balances EXCEPT ![u] = row]
          /\ job' = [job EXCEPT !.pc = "reset_ledger", !.cur = row]
    /\ UNCHANGED <<spentOk, duplicates, ledger, docVars, tipVars, elecVars, envVars, hs, nops>>

\* the daily_reset ledger entry, amount = remaining of the updated row
ResetLedger ==
    /\ job.op = "reset" /\ job.pc = "reset_ledger"
    /\ ledger' = AddRow(ledger,
            LedgerEntry(job.list[1].user, "daily_reset", job.cur.remaining, NoRef))
    /\ job' = NextItem(job, "reset_write")
    /\ UNCHANGED <<balVars, docVars, tipVars, elecVars, envVars, hs, nops>>

\* daily_sunset: balances_with_remaining
StartSunset ==
    /\ LET S == {u \in Members : balances[u].remaining > 0}
       IN \E order \in Orders(S) :
             JobBegin(IF S = {}
                      THEN [IdleJob EXCEPT !.op = "sunset", !.pc = "done"]
                      ELSE [IdleJob EXCEPT !.op = "sunset", !.pc = "sunset_check",
                                           !.list = Listing(S, order)])
    /\ UNCHANGED <<balVars, ledger, docVars, tipVars, elecVars, envVars, hs>>

\* skip a row without remaining CC or with a sunset entry for today
SunsetCheck ==
    /\ job.op = "sunset" /\ job.pc = "sunset_check"
    /\ job' = IF job.list[1].row.remaining <= 0 \/ job.list[1].user \in sunsets
              THEN NextItem(job, "sunset_check")
              ELSE [job EXCEPT !.pc = "sunset_insert"]
    /\ JobOnly

\* insert the sunset entry
SunsetInsert ==
    /\ job.op = "sunset" /\ job.pc = "sunset_insert"
    /\ sunsets' = sunsets \cup {job.list[1].user}
    /\ job' = [job EXCEPT !.pc = "sunset_update"]
    /\ UNCHANGED <<balVars, ledger, docVars, tipVars, elecVars, memberRows, now,
                   cacheVars, streak, hs, nops>>

\* expire the unspent CC of the listed row
SunsetUpdate ==
    /\ job.op = "sunset" /\ job.pc = "sunset_update"
    /\ LET u == job.list[1].user
       IN balances' = [balances EXCEPT
                          ![u] = SunsetPayload(job.list[1].row, balances[u])]
    /\ job' = [job EXCEPT !.pc = "sunset_ledger"]
    /\ UNCHANGED <<spentOk, duplicates, ledger, docVars, tipVars, elecVars, envVars, hs, nops>>

\* the expired ledger entry
SunsetLedger ==
    /\ job.op = "sunset" /\ job.pc = "sunset_ledger"
    /\ ledger' = AddRow(ledger,
            LedgerEntry(job.list[1].user, "expired",
                        -job.list[1].row.remaining, NoRef))
    /\ job' = NextItem(job, "sunset_check")
    /\ UNCHANGED <<balVars, docVars, tipVars, elecVars, envVars, hs, nops>>

(* ------------------------- TipToTipService ----------------------------- *)

\* the tip_to_tip_votes rows of one proposal
VotesOf(pid) == SelectSeq(votes, LAMBDA r : r.proposal = pid)

HasVoted(pid, user) == \E i \in 1..Len(votes) :
                          votes[i].proposal = pid /\ votes[i].user = user

\* mutant of the store: no uniqueness on the votes
VoteInsertUnchecked(pid, user) == FALSE

\* the store's unique (proposal_id, user_id) on tip_to_tip_votes
VoteInsertRejected(pid, user) == HasVoted(pid, user)

\* SupabaseService.execute: an APIError of the store is raised as
\* InvalidInputError
ExecuteRaises(storeError) == "INVALID_INPUT"

\* vote: the except clause around insert_one catches APIError only
VoteInsertRaises(raised) ==
    IF raised = "APIError" THEN "ALREADY_VOTED" ELSE raised

\* mutant of the decision: expired only when every vote is a decline
ResolveOutcomeAllDecline(rows, total) ==
    IF Len(rows) < total THEN "none"
    ELSE IF \A i \in 1..Len(rows) : rows[i].vote = "decline" THEN "expired"
    ELSE "completed"

\* mutant of the outcome: a decline resolves before every member voted
ResolveOutcomeEarlyDecline(rows, total) ==
    IF \E i \in 1..Len(rows) : rows[i].vote = "decline" THEN "expired"
    ELSE IF Len(rows) < total THEN "none"
    ELSE "completed"

\* _resolve_if_complete: the decision taken on the votes and members read
ResolveOutcome(rows, total) ==
    IF Len(rows) < total THEN "none"
    ELSE IF \E i \in 1..Len(rows) : rows[i].vote = "decline" THEN "expired"
    ELSE "completed"

\* mutant of the select: the status filter dropped
OverdueAnyStatus(t) == {i \in 1..Len(proposals) : proposals[i].deadline < t}

\* mutant of the select: the deadline filter the wrong way round
OverdueNotYetDue(t) ==
    {i \in 1..Len(proposals) :
        proposals[i].status = "active" /\ proposals[i].deadline > t}

\* expire_overdue: the rows its select returns
Overdue(t) ==
    {i \in 1..Len(proposals) :
        proposals[i].status = "active" /\ proposals[i].deadline < t}

\* ids in ascending order
RECURSIVE Ascending(_)
Ascending(S) ==
    IF S = {} THEN <<>>
    ELSE LET m == CHOOSE x \in S : \A y \in S : x <= y
         IN <<m>> \o Ascending(S \ {m})

\* create: the stake check and ensure_community_member, then spend_cc
StartTipCreate(p, u, stake) ==
    /\ Len(proposals)
         + Cardinality({q \in Handlers : hs[q].op = "tcreate" /\ ~Free(q)
                                          /\ hs[q].ref = NoRef}) < MaxProps
    /\ Begin(p, LET f == [IdleFrame EXCEPT !.op = "tcreate", !.u = u, !.amt = stake]
                IN IF stake < MinStake THEN Fail(f, "INVALID_INPUT")
                   ELSE IF u \notin Members THEN Fail(f, "FORBIDDEN")
                   ELSE [f EXCEPT !.pc = "spend_read"])
    /\ BeginOnly

\* insert the proposal: active, deadline 24 hours from now
PropInsert(p) ==
    /\ At(p, "tcreate", "prop_insert")
    /\ proposals' = Append(proposals,
            [proposer |-> hs[p].u, stake |-> hs[p].amt,
             deadline |-> now + DeadlineHours, status |-> "active"])
    /\ refunded' = Append(refunded, 0)
    /\ hs' = [hs EXCEPT ![p].pc = "prop_vote", ![p].ref = Len(proposals) + 1]
    /\ UNCHANGED <<balVars, ledger, docVars, votes, elecVars, envVars, job, nops>>

\* insert the proposer's accept vote
PropVote(p) ==
    /\ At(p, "tcreate", "prop_vote")
    /\ votes' = Append(votes,
            [proposal |-> hs[p].ref, user |-> hs[p].u, vote |-> "accept"])
    /\ hs' = [hs EXCEPT ![p].pc = "prop_ledger"]
    /\ UNCHANGED <<balVars, ledger, docVars, proposals, refunded, elecVars,
                   envVars, job, nops>>

\* the ledger entry of the stake, amount -stake
PropLedger(p) ==
    /\ At(p, "tcreate", "prop_ledger")
    /\ ledger' = AddRow(ledger,
            LedgerEntry(hs[p].u, "tip_to_tip", -hs[p].amt, hs[p].ref))
    /\ hs' = [hs EXCEPT ![p].pc = "prop_msg"]
    /\ LedgerOnly

\* create_tip_to_tip_message: after create returned, insert the chat
\* message of type tip_to_tip that references the proposal
PropMsg(p) ==
    /\ At(p, "tcreate", "prop_msg")
    /\ messages' = AddRow(messages,
            [user |-> hs[p].u, type |-> "tip_to_tip", ref |-> hs[p].ref])
    /\ hs' = [hs EXCEPT ![p] = Done(hs[p])]
    /\ UNCHANGED <<balVars, ledger, declarations, borrows, tipVars, elecVars, envVars,
                   job, nops>>

\* a proposal's id reaches the other members in the chamber message that
\* references it (and in the creator's response, built after that insert)
Announced(pid) ==
    \E m \in BagToSet(messages) : m.type = "tip_to_tip" /\ m.ref = pid

\* vote: get_proposal, the status check, the deadline check
StartTipVote(p, pid, voter, choice) ==
    /\ pid \in 1..Len(proposals)
    /\ Announced(pid)
    /\ Begin(p, LET f == [IdleFrame EXCEPT !.op = "tvote", !.u = voter,
                                           !.ref = pid, !.choice = choice]
                IN IF proposals[pid].status # "active"
                   THEN Fail(f, "PROPOSAL_EXPIRED")
                   ELSE IF now > proposals[pid].deadline
                   THEN [f EXCEPT !.pc = "vote_expire"]
                   ELSE [f EXCEPT !.pc = "vote_check"])
    /\ BeginOnly

\* the codes ConflictError is raised with (status 409)
ConflictCodes == {"CONFLICT", "PROPOSAL_EXPIRED", "ALREADY_VOTED", "ELECTION_CLOSED"}

\* mutant of the deadline branch: it raises and leaves the status alone
VoteExpireKeepsStatus(p) ==
    /\ At(p, "tvote", "vote_expire")
    /\ hs' = [hs EXCEPT ![p] = Fail(hs[p], "PROPOSAL_EXPIRED")]
    /\ ReadOnly

\* vote: past the deadline, set the proposal expired and raise
VoteExpire(p) ==
    /\ At(p, "tvote", "vote_expire")
    /\ proposals' = [proposals EXCEPT ![hs[p].ref].status = "expired"]
    /\ hs' = [hs EXCEPT ![p] = Fail(hs[p], "PROPOSAL_EXPIRED")]
    /\ UNCHANGED <<balVars, ledger, docVars, votes, refunded, elecVars, envVars,
                   job, nops>>

\* vote: ensure_community_member, then the select of the voter's vote
VoteCheck(p) ==
    /\ At(p, "tvote", "vote_check")
    /\ hs' = [hs EXCEPT ![p] =
                 IF hs[p].u \notin Members THEN Fail(hs[p], "FORBIDDEN")
                 ELSE IF HasVoted(hs[p].ref, hs[p].u)
                 THEN Fail(hs[p], "ALREADY_VOTED")
                 ELSE [hs[p] EXCEPT !.pc = "vote_insert"]]
    /\ ReadOnly

\* vote: insert the vote; a rejected insert raises through execute
VoteInsert(p) ==
    /\ At(p, "tvote", "vote_insert")
    /\ IF VoteInsertRejected(hs[p].ref, hs[p].u)
       THEN /\ hs' = [hs EXCEPT ![p] =
                         Fail(hs[p], VoteInsertRaises(ExecuteRaises("APIError")))]
            /\ UNCHANGED votes
       ELSE /\ votes' = Append(votes,
                    [proposal |-> hs[p].ref, user |-> hs[p].u,
                     vote |-> hs[p].choice])
            /\ hs' = [hs EXCEPT ![p].pc = "resolve_read"]
    /\ UNCHANGED <<balVars, ledger, docVars, proposals, refunded, elecVars,
                   envVars, job, nops>>

\* vote: the request ends between the vote insert and _resolve_if_complete
\* (its process stops, or the next store request raises): the vote stays
VoteStops(p) ==
    /\ At(p, "tvote", "resolve_read")
    /\ hs' = [hs EXCEPT ![p] = Fail(hs[p], "STOPPED")]
    /\ ReadOnly

\* _resolve_if_complete: get_proposal (the row and its votes), the members
ResolveRead(p) ==
    /\ At(p, "tvote", "resolve_read")
    /\ LET pid == hs[p].ref
           outcome == ResolveOutcome(VotesOf(pid), Cardinality(Members))
       IN hs' = [hs EXCEPT ![p] =
                    IF outcome = "none" THEN Done(hs[p])
                    ELSE [hs[p] EXCEPT !.pc = "resolve_" \o outcome,
                                       !.v = proposals[pid].proposer,
                                       !.amt = proposals[pid].stake]]
    /\ ReadOnly

\* _resolve_if_complete: a decline was read, set the proposal expired
ResolveExpire(p) ==
    /\ At(p, "tvote", "resolve_expired")
    /\ proposals' = [proposals EXCEPT ![hs[p].ref].status = "expired"]
    /\ hs' = [hs EXCEPT ![p] = [Done(hs[p]) EXCEPT !.out = "expired"]]
    /\ UNCHANGED <<balVars, ledger, docVars, votes, refunded, elecVars, envVars,
                   job, nops>>

\* _resolve_if_complete: all accept, set the proposal completed
ResolveComplete(p) ==
    /\ At(p, "tvote", "resolve_completed")
    /\ proposals' = [proposals EXCEPT ![hs[p].ref].status = "completed"]
    /\ hs' = [hs EXCEPT ![p].pc = "refund_read"]
    /\ UNCHANGED <<balVars, ledger, docVars, votes, refunded, elecVars, envVars,
                   job, nops>>

\* _resolve_if_complete: the ledger entry of the refund, amount +stake
RefundLedger(p) ==
    /\ At(p, "tvote", "refund_ledger")
    /\ ledger' = AddRow(ledger,
            LedgerEntry(hs[p].v, "tip_to_tip", hs[p].amt, hs[p].ref))
    /\ hs' = [hs EXCEPT ![p] = [Done(hs[p]) EXCEPT !.out = "completed"]]
    /\ LedgerOnly

\* expire_overdue: read the clock, select the active overdue proposals
ExpiryFrame ==
    IF Overdue(now) = {}
    THEN [IdleJob EXCEPT !.op = "expiry", !.pc = "done", !.at = now]
    ELSE [IdleJob EXCEPT !.op = "expiry", !.pc = "expire_write", !.at = now,
                         !.list = Ascending(Overdue(now))]

\* tip_to_tip_expiry: expire_overdue selects the active overdue proposals
StartExpiry ==
    /\ JobBegin(ExpiryFrame)
    /\ UNCHANGED <<balVars, ledger, docVars, tipVars, elecVars, envVars, hs>>

\* the cron trigger of tip_to_tip_expiry fires again (every 15 minutes, one
\* instance at a time): a run of the sweep that the bound on the number of
\* operations does not count, since the schedule never ends
ScheduledExpiry ==
    /\ job.pc \in {"idle", "done"}
    /\ job' = ExpiryFrame
    /\ UNCHANGED <<balVars, ledger, docVars, tipVars, elecVars, envVars, hs,
                   nops>>

\* expire_overdue: update the listed proposal by id, keep the returned row
ExpireWrite ==
    /\ job.op = "expiry" /\ job.pc = "expire_write"
    /\ proposals' = [proposals EXCEPT ![job.list[1]].status = "expired"]
    /\ job' = NextItem([job EXCEPT !.ret = Append(job.ret, job.list[1])],
                       "expire_write")
    /\ UNCHANGED <<balVars, ledger, docVars, votes, refunded, elecVars, envVars,
                   hs, nops>>

\* time passes
Tick ==
    /\ now + TickHours <= MaxNow
    /\ now' = now + TickHours
    /\ UNCHANGED <<balVars, ledger, docVars, tipVars, elecVars, memberRows,
                   sunsets, cacheVars, streak, hs, job, nops>>

(* -------------------------- ElectionService ---------------------------- *)

\* mutant of the candidate set: every member
CandidatesAnyMember == Members

\* _candidate_members: the members holding council or moderator
Candidates == {u \in Members : RolesOf(u) \cap {"council", "moderator"} # {}}

\* active: some election of the community is active
ActiveElection == \E i \in 1..Len(elections) : elections[i].status = "active"

EHasVoted(eid, voter) == \E i \in 1..Len(evotes) :
                            evotes[i].election = eid /\ evotes[i].voter = voter

\* created_at of the votes is the store's clock at the insert: the latest
\* value given so far, or a later one
LastStamp == IF evotes = <<>> THEN 0 ELSE evotes[Len(evotes)].created_at
NextStamps == {Max(LastStamp, 1), LastStamp + 1}

\* the store's unique (election_id, voter_id) on election_votes
EVoteInsertRejected(eid, voter) == EHasVoted(eid, voter)

\* create: ensure_roles moderator
StartElectionCreate(p, actor) ==
    /\ Len(elections)
         + Cardinality({q \in Handlers : hs[q].op = "ecreate" /\ ~Free(q)})
         < MaxElections
    /\ Begin(p, LET f == [IdleFrame EXCEPT !.op = "ecreate", !.u = actor]
                IN IF "moderator" \notin RolesOf(actor)
                   THEN Fail(f, "FORBIDDEN")
                   ELSE [f EXCEPT !.pc = "ecreate_check"])
    /\ BeginOnly

\* create: the select of the active election
ECreateCheck(p) ==
    /\ At(p, "ecreate", "ecreate_check")
    /\ hs' = [hs EXCEPT ![p] =
                 IF ActiveElection THEN Fail(hs[p], "CONFLICT")
                 ELSE [hs[p] EXCEPT !.pc = "ecreate_insert"]]
    /\ ReadOnly

\* create: insert the election, active
ECreateInsert(p) ==
    /\ At(p, "ecreate", "ecreate_insert")
    /\ elections' = Append(elections, [status |-> "active", winner |-> NoUser])
    /\ hs' = [hs EXCEPT ![p] = [Done(hs[p]) EXCEPT !.ref = Len(elections) + 1]]
    /\ UNCHANGED <<balVars, ledger, docVars, tipVars, evotes, envVars, job, nops>>

\* mutant of vote: no role is required
StartElectionVoteAnyRole(p, eid, actor, candidate) ==
    /\ eid \in 1..Len(elections)
    /\ Begin(p, [IdleFrame EXCEPT !.op = "evote", !.pc = "evote_read",
                                  !.u = actor, !.v = candidate, !.ref = eid])
    /\ BeginOnly

\* vote: ensure_roles council or moderator
StartElectionVote(p, eid, actor, candidate) ==
    /\ eid \in 1..Len(elections)
    /\ Begin(p, LET f == [IdleFrame EXCEPT !.op = "evote", !.u = actor,
                                           !.v = candidate, !.ref = eid]
                IN IF RolesOf(actor) \cap {"council", "moderator"} = {}
                   THEN Fail(f, "FORBIDDEN")
                   ELSE [f EXCEPT !.pc = "evote_read"])
    /\ BeginOnly

\* vote: select the election, the status check
EVoteRead(p) ==
    /\ At(p, "evote", "evote_read")
    /\ hs' = [hs EXCEPT ![p] =
                 IF elections[hs[p].ref].status # "active"
                 THEN Fail(hs[p], "ELECTION_CLOSED")
                 ELSE [hs[p] EXCEPT !.pc = "evote_cand"]]
    /\ ReadOnly

\* vote: the candidate must be among _candidate_members
EVoteCand(p) ==
    /\ At(p, "evote", "evote_cand")
    /\ hs' = [hs EXCEPT ![p] =
                 IF hs[p].v \notin Candidates THEN Fail(hs[p], "NOT_FOUND")
                 ELSE [hs[p] EXCEPT !.pc = "evote_check"]]
    /\ ReadOnly

\* vote: the select of the voter's vote
EVoteCheck(p) ==
    /\ At(p, "evote", "evote_check")
    /\ hs' = [hs EXCEPT ![p] =
                 IF EHasVoted(hs[p].ref, hs[p].u)
                 THEN Fail(hs[p], "ALREADY_VOTED")
                 ELSE [hs[p] EXCEPT !.pc = "evote_insert"]]
    /\ ReadOnly

\* vote: insert the vote; a rejected insert raises through execute
EVoteInsert(p) ==
    /\ At(p, "evote", "evote_insert")
    /\ IF EVoteInsertRejected(hs[p].ref, hs[p].u)
       THEN /\ hs' = [hs EXCEPT ![p] =
                         Fail(hs[p], VoteInsertRaises(ExecuteRaises("APIError")))]
            /\ UNCHANGED evotes
       ELSE /\ \E t \in NextStamps :
                  evotes' = Append(evotes,
                      [election |-> hs[p].ref, voter |-> hs[p].u,
                       candidate |-> hs[p].v, created_at |-> t])
            /\ hs' = [hs EXCEPT ![p] = Done(hs[p])]
    /\ UNCHANGED <<balVars, ledger, docVars, tipVars, elections, envVars, job,
                   nops>>

(* ----------------------- ElectionService.close ------------------------- *)

\* _votes: the election's rows ordered by created_at; rows with the same
\* created_at come in any order
ElectionVotes(eid) == SelectSeq(evotes, LAMBDA r : r.election = eid)

VoteOrders(eid) ==
    LET R == ElectionVotes(eid)
        n == Len(R)
    IN {[i \in 1..n |-> R[f[i]]] :
          f \in {g \in Orders(1..n) :
                   \A i \in 1..(n - 1) :
                      R[g[i]].created_at <= R[g[i + 1]].created_at}}

\* Counter over candidate_id
CountOf(rows, c) == Cardinality({i \in 1..Len(rows) : rows[i].candidate = c})
Voted(rows) == {rows[i].candidate : i \in 1..Len(rows)}

\* max(counts.values())
MaxVotes(rows) ==
    CHOOSE n \in {CountOf(rows, c) : c \in Voted(rows)} :
        \A c \in Voted(rows) : CountOf(rows, c) <= n

\* the candidates whose total is max_votes
Tied(rows) == {c \in Voted(rows) : CountOf(rows, c) = MaxVotes(rows)}

\* the index of the row that enters the candidate into first_seen
FirstSeen(rows, c) ==
    CHOOSE i \in 1..Len(rows) :
        /\ rows[i].candidate = c
        /\ \A j \in 1..(i - 1) : rows[j].candidate # c

\* mutants of the winner: the tied candidate first voted for latest; the
\* candidate of the first vote read, whatever the counts
TallyWinnerLatest(rows) ==
    IF rows = <<>> THEN NoUser
    ELSE CHOOSE c \in Tied(rows) :
            \A d \in Tied(rows) : FirstSeen(rows, d) <= FirstSeen(rows, c)
TallyWinnerFirstRow(rows) ==
    IF rows = <<>> THEN NoUser ELSE rows[1].candidate

\* close: the winner of the votes read.  A single leader wins; among tied
\* leaders min() over first_seen takes the smallest created_at, and of
\* equal ones the candidate entered first.  (created_at is compared as the
\* text the store returns, a fixed-format timestamp whose text order is
\* its time order.)
TallyWinner(rows) ==
    IF rows = <<>> THEN NoUser
    ELSE IF Cardinality(Tied(rows)) = 1 THEN CHOOSE c \in Tied(rows) : TRUE
    ELSE CHOOSE c \in Tied(rows) :
            \A d \in Tied(rows) \ {c} :
               LET i == FirstSeen(rows, c)
                   j == FirstSeen(rows, d)
               IN \/ rows[i].created_at < rows[j].created_at
                  \/ rows[i].created_at = rows[j].created_at /\ i < j

\* close: ensure_roles moderator
StartElectionClose(p, eid, actor) ==
    /\ eid \in 1..Len(elections)
    /\ Begin(p, LET f == [IdleFrame EXCEPT !.op = "eclose", !.u = actor,
                                           !.ref = eid]
                IN IF "moderator" \notin RolesOf(actor)
                   THEN Fail(f, "FORBIDDEN")
                   ELSE [f EXCEPT !.pc = "eclose_read"])
    /\ BeginOnly

\* mutant of close: the status of the election read is not looked at
ECloseReadAnyStatus(p) ==
    /\ At(p, "eclose", "eclose_read")
    /\ hs' = [hs EXCEPT ![p].pc = "eclose_votes"]
    /\ ReadOnly

\* close: select the election; one that is not active is returned as it is
ECloseRead(p) ==
    /\ At(p, "eclose", "eclose_read")
    /\ hs' = [hs EXCEPT ![p] =
                 IF elections[hs[p].ref].status # "active"
                 THEN [Done(hs[p]) EXCEPT !.out = "unchanged"]
                 ELSE [hs[p] EXCEPT !.pc = "eclose_votes"]]
    /\ ReadOnly

\* close: read the votes
ECloseVotes(p) ==
    /\ At(p, "eclose", "eclose_votes")
    /\ \E rows \in VoteOrders(hs[p].ref) :
          hs' = [hs EXCEPT ![p].pc = "eclose_write", ![p].rows = rows]
    /\ ReadOnly

\* close: compute the winner, update the election by id
ECloseWrite(p) ==
    /\ At(p, "eclose", "eclose_write")
    /\ LET w == TallyWinner(hs[p].rows)
       IN /\ elections' = [elections EXCEPT
                 ![hs[p].ref] = [status |-> "completed", winner |-> w]]
          /\ hs' = [hs EXCEPT ![p] =
                       IF w = NoUser
                       THEN [Done(hs[p]) EXCEPT !.out = "completed"]
                       ELSE [hs[p] EXCEPT !.pc = "eclose_mod", !.v = w]]
    /\ UNCHANGED <<balVars, ledger, docVars, tipVars, evotes, envVars, job, nops>>

\* close: select the winner's moderator row
ECloseModCheck(p) ==
    /\ At(p, "eclose", "eclose_mod")
    /\ hs' = [hs EXCEPT ![p].pc =
                 IF <<hs[p].v, "moderator">> \in memberRows
                 THEN "eclose_announce" ELSE "eclose_mod_insert"]
    /\ ReadOnly

\* mutant of the grant: the moderator role moves to the winner
ECloseModInsertRevoking(p) ==
    /\ At(p, "eclose", "eclose_mod_insert")
    /\ memberRows' = {r \in memberRows : r[2] # "moderator"}
                        \cup {<<hs[p].v, "moderator">>}
    /\ hs' = [hs EXCEPT ![p].pc = "eclose_announce"]
    /\ UNCHANGED <<balVars, ledger, docVars, tipVars, elecVars, now, sunsets,
                   cacheVars, streak, job, nops>>

\* close: insert the winner's moderator row
ECloseModInsert(p) ==
    /\ At(p, "eclose", "eclose_mod_insert")
    /\ memberRows' = memberRows \cup {<<hs[p].v, "moderator">>}
    /\ hs' = [hs EXCEPT ![p].pc = "eclose_announce"]
    /\ UNCHANGED <<balVars, ledger, docVars, tipVars, elecVars, now, sunsets,
                   cacheVars, streak, job, nops>>

\* close: the system message announcing the winner
ECloseAnnounce(p) ==
    /\ At(p, "eclose", "eclose_announce")
    /\ messages' = AddRow(messages,
            [user |-> hs[p].u, type |-> "system", ref |-> NoRef])
    /\ hs' = [hs EXCEPT ![p] = [Done(hs[p]) EXCEPT !.out = "completed"]]
    /\ UNCHANGED <<balVars, ledger, declarations, borrows, tipVars, elecVars, envVars,
                   job, nops>>

(* ------------------- _cache_get / _cache_set --------------------------- *)

Threads == {"t1", "t2"}
CacheKeys == {"k1", "k2", "k3"}
\* ttl_seconds: none and a positive one
CacheTtls == {0, 1}

\* None
Absent == "absent"
NoEntry == [key |-> "", expires_at |-> 0, value |-> ""]

\* a caller's locals: key, value, ttl_seconds, now, entry, oldest_key, and
\* what it returned
IdleCaller ==
    [op |-> "idle", pc |-> "idle", key |-> "", value |-> "", ttl |-> 0,
     at |-> 0, entry |-> NoEntry, oldest |-> "", ret |-> ""]

\* no cache in use
\* no call of compute_streaks has been made
IdleStreak == [pc |-> "idle", dates |-> <<>>, ret |-> <<0, 0>>]
StreakIdle == streak = IdleStreak

CacheEmpty ==
    /\ cache = <<>>
    /\ callers = [t \in Threads |-> IdleCaller]
    /\ mono = 0

\* bounded_max_entries = max(1, max_entries)
CacheCapacity == Max(1, CacheMaxEntries)

\* cache.get(key): the position of the key's entry, 0 when it has none
CachePos(c, key) ==
    IF \E i \in 1..Len(c) : c[i].key = key
    THEN CHOOSE i \in 1..Len(c) : c[i].key = key
    ELSE 0

\* cache.pop(key)
CachePop(c, key) == SelectSeq(c, LAMBDA e : e.key # key)

\* mutant of the expiry test: an entry still counts at its expiry
CacheExpiredLate(entry, at) == entry.expires_at < at

\* _cache_get: the entry has expired at the time read
CacheExpired(entry, at) == entry.expires_at <= at

\* mutant of the eviction: the entry inserted last is removed
CacheEvictNewest(c) ==
    IF Len(c) >= CacheCapacity THEN SubSeq(c, 1, Len(c) - 1) ELSE c

\* _cache_set: at capacity, pop next(iter(cache)), the first key inserted
CacheEvict(c) == IF Len(c) >= CacheCapacity THEN Tail(c) ELSE c

\* cache[key] = entry: a key the dict holds keeps its place
CachePut(c, entry) ==
    IF CachePos(c, entry.key) = 0 THEN Append(c, entry)
    ELSE [c EXCEPT ![CachePos(c, entry.key)] = entry]

CallerFree(t) == callers[t].pc \in {"idle", "done"}

\* what the steps of a caller leave alone
CacheOnly ==
    UNCHANGED <<balVars, ledger, docVars, tipVars, elecVars, memberRows, now,
                sunsets, streak, hs, job>>

\* _cache_get: read the clock, then wait for the lock
CacheGetBegin(t, key) ==
    /\ CallerFree(t)
    /\ nops < MaxOps
    /\ nops' = nops + 1
    /\ callers' = [callers EXCEPT ![t] =
          [IdleCaller EXCEPT !.op = "get", !.pc = "get_locked", !.key = key,
                             !.at = mono]]
    /\ UNCHANGED <<cache, mono>>
    /\ CacheOnly

\* _cache_get under the lock: look the key up, drop an expired entry
CacheGetLocked(t) ==
    /\ callers[t].op = "get" /\ callers[t].pc = "get_locked"
    /\ LET c == callers[t]
           i == CachePos(cache, c.key)
       IN IF i = 0
          THEN /\ callers' = [callers EXCEPT ![t].pc = "done", ![t].ret = Absent]
               /\ UNCHANGED cache
          ELSE IF CacheExpired(cache[i], c.at)
          THEN /\ cache' = CachePop(cache, c.key)
               /\ callers' = [callers EXCEPT ![t].pc = "done",
                                             ![t].entry = cache[i],
                                             ![t].ret = Absent]
          ELSE /\ callers' = [callers EXCEPT ![t].pc = "done",
                                             ![t].entry = cache[i],
                                             ![t].ret = cache[i].value]
               /\ UNCHANGED cache
    /\ UNCHANGED <<mono, nops>>
    /\ CacheOnly

\* _cache_set: a ttl that is not positive returns at once
CacheSetBegin(t, key, value, ttl) ==
    /\ CallerFree(t)
    /\ nops < MaxOps
    /\ nops' = nops + 1
    /\ callers' = [callers EXCEPT ![t] =
          [IdleCaller EXCEPT !.op = "set", !.key = key, !.value = value,
                             !.ttl = ttl,
                             !.pc = IF ttl <= 0 THEN "done" ELSE "set_locked"]]
    /\ UNCHANGED <<cache, mono>>
    /\ CacheOnly

\* _cache_set under the lock: evict at capacity, store the entry
CacheSetLocked(t) ==
    /\ callers[t].op = "set" /\ callers[t].pc = "set_locked"
    /\ LET c == callers[t]
       IN /\ cache' = CachePut(CacheEvict(cache),
                 [key |-> c.key, expires_at |-> mono + c.ttl, value |-> c.value])
          /\ callers' = [callers EXCEPT ![t].pc = "done",
                ![t].oldest = IF Len(cache) >= CacheCapacity
                              THEN cache[1].key ELSE ""]
    /\ UNCHANGED <<mono, nops>>
    /\ CacheOnly

\* the monotonic clock advances
MonoTick ==
    /\ mono < MaxMono
    /\ mono' = mono + 1
    /\ UNCHANGED <<cache, callers, nops>>
    /\ CacheOnly

(* ------------------------- initial states ------------------------------ *)

\* the ledger after the members joined: one allocation entry per balance
JoinLedger(M, bal) ==
    [e \in {LedgerEntry(u, "daily_reset", bal[u].daily_budget, NoRef) : u \in M}
        |-> 1]

\* a community after its creation and its members' joins: the membership
\* rows, a fresh balance for each member, nothing else yet
InitStore(rows) ==
    /\ memberRows = rows
    /\ balances = [u \in Users |->
                      IF u \in {r[1] : r \in rows}
                      THEN FreshBalance(DefaultDailyBudget) ELSE NoRow]
    /\ spentOk = [u \in Users |-> 0]
    /\ duplicates = [u \in Users |-> 0]
    /\ ledger = JoinLedger({r[1] : r \in rows}, balances)
    /\ declarations = <<>>
    /\ borrows = <<>>
    /\ messages = EmptyBag
    /\ sunsets = {}
    /\ proposals = <<>>
    /\ votes = <<>>
    /\ refunded = <<>>
    /\ elections = <<>>
    /\ evotes = <<>>
    /\ now = 0
    /\ hs = [p \in Handlers |-> IdleFrame]
    /\ job = IdleJob
    /\ nops = 0

\* the same, with no cache in use
InitCommunity(rows) == InitStore(rows) /\ CacheEmpty /\ StreakIdle

(* ------------- balances under concurrent requests and jobs ------------- *)

BalUsers == {"u1", "u2"}
DeclareAmounts == {MaxDeclare}
TransferAmounts == {DefaultDailyBudget}

\* CommunityService.create makes the creator moderator, join makes a member
BalRows == {<<"u1", "moderator">>, <<"u2", "member">>}

InitBal == InitCommunity(BalRows)

BalSteps(p) ==
    \/ SpendRead(p)
    \/ SpendWrite(p)
    \/ DeclInsert(p)
    \/ MsgInsert(p)
    \/ DeclLedger(p)
    \/ XferReadLender(p)
    \/ XferReadBorrower(p)
    \/ XferWriteLender(p)
    \/ XferWriteBorrower(p)
    \/ RefundRead(p)
    \/ RefundWrite(p)

NextBal ==
    \/ \E p \in Handlers, u \in BalUsers, a \in DeclareAmounts : StartDeclare(p, u, a)
    \/ \E p \in Handlers, l \in BalUsers, a \in TransferAmounts :
          \E b \in BalUsers \ {l} : StartTransfer(p, l, b, a)
    \/ \E p \in Handlers, u \in BalUsers : StartRefund(p, u, MinStake)
    \/ \E p \in Handlers : BalSteps(p)
    \/ StartReset
    \/ ResetWrite
    \/ ResetLedger
    \/ StartSunset
    \/ SunsetCheck
    \/ SunsetInsert
    \/ SunsetUpdate
    \/ SunsetLedger

SpecBal == InitBal /\ [][NextBal]_vars

(* ------------------- concurrent spends (declarations) ------------------ *)

SpendAmounts == {MinDeclare, MaxDeclare}

SpendSteps(p) ==
    \/ SpendRead(p)
    \/ SpendWrite(p)
    \/ DeclInsert(p)
    \/ MsgInsert(p)
    \/ DeclLedger(p)

NextSpend ==
    \/ \E p \in Handlers, u \in BalUsers, a \in SpendAmounts : StartDeclare(p, u, a)
    \/ \E p \in Handlers : SpendSteps(p)

SpecSpend == InitBal /\ [][NextSpend]_vars

(* C2: when spends on one balance succeed, in any interleaving of their    *)
(* reads and writes, remaining has dropped by the sum of their amounts and *)
(* spent_today has risen by it: no update is lost.  (Under SpecSpend only  *)
(* spends change a balance, and spentOk sums the writes executed.)         *)
SpendsNotLost ==
    \A u \in BalUsers :
        /\ balances[u].remaining = DefaultDailyBudget - spentOk[u]
        /\ balances[u].spent_today = spentOk[u]

(* C3: every balance has remaining >= 0 in every state reachable by        *)
(* interleaving spend, transfer, refund, daily reset and sunset; a spend   *)
(* or transfer about to write has read a remaining >= its amount.          *)
RemainingNonNegative ==
    /\ \A u \in Members : balances[u].remaining >= 0
    /\ \A p \in Handlers :
          hs[p].pc \in {"spend_write", "xfer_write_l", "xfer_write_b"}
              => hs[p].rb.remaining >= hs[p].amt

\* a transfer has emptied the lender's balance
RemainingZeroReached ==
    \E p \in Handlers :
        /\ hs[p].op = "transfer" /\ hs[p].pc = "done" /\ hs[p].err = ""
        /\ balances[hs[p].u].remaining = 0
        /\ balances[hs[p].v].debt > 0

(* C4: a spend whose amount exceeds the stored remaining fails with        *)
(* InsufficientFunds, leaves the balance row unchanged and ends the        *)
(* declaration request: no declaration, chat message or ledger entry.      *)
RefusedSpendBlocksDeclaration ==
    [][\A p \in Handlers :
          (/\ At(p, "declare", "spend_read")
           /\ hs'[p] # hs[p]
           /\ balances[hs[p].u].remaining < hs[p].amt)
          => /\ hs'[p].pc = "done"
             /\ hs'[p].err = "INSUFFICIENT_CC"
             /\ hs'[p].ref = NoRef
             /\ UNCHANGED <<balances, declarations, messages, ledger>>]_vars

\* a declaration request has been refused for lack of funds
DeclarationRefused ==
    \E p \in Handlers :
        /\ hs[p].op = "declare" /\ hs[p].pc = "done"
        /\ hs[p].err = "INSUFFICIENT_CC"
        /\ balances[hs[p].u].remaining < hs[p].amt
        /\ declarations = <<>>

(* ------------- one operation at a time, on any balance rows ------------ *)

\* balance rows that spends, borrowed amounts and earlier resets leave
\* behind: part of the budget spent, a debt of none, less than, all of or
\* more than a daily budget
SeqRows ==
    {BalanceRow(DefaultDailyBudget, DefaultDailyBudget - r, r, d, 0) :
        r \in {0, 70, 100}, d \in {0, 30, 100, 150}}

InitSeq ==
    /\ memberRows = BalRows
    /\ \E f \in [BalUsers -> SeqRows] :
          balances = [u \in Users |-> IF u \in BalUsers THEN f[u] ELSE NoRow]
    /\ spentOk = [u \in Users |-> 0]
    /\ duplicates = [u \in Users |-> 0]
    /\ ledger = JoinLedger(BalUsers, balances)
    /\ declarations = <<>>
    /\ borrows = <<>>
    /\ messages = EmptyBag
    /\ sunsets = {}
    /\ CacheEmpty
    /\ StreakIdle
    /\ proposals = <<>>
    /\ votes = <<>>
    /\ refunded = <<>>
    /\ elections = <<>>
    /\ evotes = <<>>
    /\ now = 0
    /\ hs = [p \in Handlers |-> IdleFrame]
    /\ job = IdleJob
    /\ nops = 0

\* the amount of the borrow request being approved
SeqAmounts == {20}

\* no request and no job is running
Quiet == job.pc \in {"idle", "done"} /\ \A p \in Handlers : Free(p)

NextSeq ==
    \/ /\ Quiet
       /\ \E p \in Handlers, l \in BalUsers, b \in BalUsers :
             \E a \in SeqAmounts : StartTransfer(p, l, b, a)
    \/ \E p \in Handlers : XferReadLender(p)
    \/ \E p \in Handlers : XferReadBorrower(p)
    \/ \E p \in Handlers : XferWriteLender(p)
    \/ \E p \in Handlers : XferWriteBorrower(p)
    \/ Quiet /\ StartReset
    \/ ResetWrite
    \/ ResetLedger

SpecSeq == InitSeq /\ [][NextSeq]_vars

\* the sum of remaining over the members' balances
RECURSIVE SumOver(_, _)
SumOver(f, S) ==
    IF S = {} THEN 0
    ELSE LET x == CHOOSE y \in S : TRUE IN f[x] + SumOver(f, S \ {x})

ResetRepaysDebt ==
    (job.op = "reset" /\ job.pc = "reset_ledger")
    => LET b == job.list[1].row
           w == balances[job.list[1].user]
           repayment == IF b.debt < b.daily_budget THEN b.debt ELSE b.daily_budget
       IN /\ b.debt > 0 => /\ w.debt = b.debt - repayment
                           /\ w.remaining = b.daily_budget - repayment
                           /\ w.spent_today = repayment
          /\ b.debt = 0 => /\ w.remaining = b.daily_budget
                           /\ w.spent_today = 0
                           /\ w.debt = 0
          /\ w.remaining + w.spent_today = w.daily_budget
          /\ w.remaining >= 0
          /\ w.debt >= 0
          /\ (b.debt = 30 /\ b.daily_budget = 100)
                => (w.debt = 0 /\ w.remaining = 70 /\ w.spent_today = 30)
          /\ (b.debt = 150 /\ b.daily_budget = 100)
                => (w.debt = 50 /\ w.remaining = 0 /\ w.spent_today = 100)

\* a reset has repaid a debt larger than the budget in part
ResetRepaidPart ==
    /\ job.op = "reset" /\ job.pc = "reset_ledger"
    /\ job.list[1].row.debt = 150
    /\ balances[job.list[1].user].debt = 50
    /\ balances[job.list[1].user].remaining = 0

(* ------------------------ tip-to-tip proposals ------------------------- *)

TwoRows == {<<"u1", "moderator">>, <<"u2", "member">>}
ThreeRows == TwoRows \cup {<<"u3", "member">>}

\* a community of two or of three members
InitTip == \E rows \in {TwoRows, ThreeRows} : InitCommunity(rows)

TipSteps(p) ==
    \/ SpendRead(p)
    \/ SpendWrite(p)
    \/ PropInsert(p)
    \/ PropVote(p)
    \/ PropLedger(p)
    \/ PropMsg(p)
    \/ VoteExpire(p)
    \/ VoteCheck(p)
    \/ VoteInsert(p)
    \/ ResolveRead(p)
    \/ ResolveExpire(p)
    \/ ResolveComplete(p)
    \/ RefundRead(p)
    \/ RefundWrite(p)
    \/ RefundLedger(p)

NextTip ==
    \/ \E p \in Handlers, u \in Users, a \in {MinStake - 1, MinStake} :
          StartTipCreate(p, u, a)
    \/ \E p \in Handlers, u \in Users, c \in {"accept", "decline"} :
          \E pid \in 1..Len(proposals) : StartTipVote(p, pid, u, c)
    \/ \E p \in Handlers : TipSteps(p)
    \/ StartExpiry
    \/ ExpireWrite
    \/ Tick

SpecTip == InitTip /\ [][NextTip]_vars

\* the refund entry of a proposal in the ledger
RefundEntry(pid) ==
    LedgerEntry(proposals[pid].proposer, "tip_to_tip", proposals[pid].stake, pid)

\* every member has a vote on the proposal / some vote on it is a decline
AllVoted(pid) == \A u \in Members : HasVoted(pid, u)
AnyDecline(pid) == \E i \in 1..Len(votes) :
                      votes[i].proposal = pid /\ votes[i].vote = "decline"

\* a vote request on the proposal is still running
VoteInFlight(pid) == \E p \in Handlers :
                        hs[p].op = "tvote" /\ hs[p].ref = pid /\ ~Free(p)

(* C1: a proposal whose votes cover every member and are all accept        *)
(* becomes completed and its stake is refunded exactly once (one refund    *)
(* write, one positive ledger entry), in every interleaving, also when the *)
(* last two votes are cast concurrently and both voters run resolution.    *)
RefundedExactlyOnce ==
    \A pid \in 1..Len(proposals) :
        (AllVoted(pid) /\ ~AnyDecline(pid))
        => /\ refunded[pid] <= 1
           /\ CopiesIn(RefundEntry(pid), ledger) <= 1
           /\ ~VoteInFlight(pid)
                 => /\ refunded[pid] = 1
                    /\ CopiesIn(RefundEntry(pid), ledger) = 1

(* C6: the statuses completed and expired are terminal: once stored, the   *)
(* status of a proposal never changes again, whatever vote, resolution     *)
(* and the deadline sweep do.                                              *)
TerminalStatusStays ==
    [][\A pid \in 1..Len(proposals) :
          proposals[pid].status \in {"completed", "expired"}
              => proposals'[pid].status = proposals[pid].status]_vars

(* C9: when the votes of every member are in and one of them is a decline, *)
(* the resolution sets the proposal expired and refunds nothing: no refund *)
(* write on the proposer's balance, no refund entry in the ledger.         *)
DeclineForfeitsStake ==
    \A pid \in 1..Len(proposals) :
        AnyDecline(pid)
        => /\ refunded[pid] = 0
           /\ CopiesIn(RefundEntry(pid), ledger) = 0
           /\ proposals[pid].status # "completed"
           /\ (AllVoted(pid) /\ ~VoteInFlight(pid))
                 => proposals[pid].status = "expired"

\* the last vote, a decline, has resolved the proposal to expired
DeclineResolved ==
    \E p \in Handlers :
        /\ hs[p].op = "tvote" /\ hs[p].pc = "done" /\ hs[p].out = "expired"
        /\ hs[p].choice = "decline"
        /\ AllVoted(hs[p].ref)
        /\ proposals[hs[p].ref].status = "expired"
        /\ balances[proposals[hs[p].ref].proposer].remaining
              = DefaultDailyBudget - proposals[hs[p].ref].stake

(* -------------- duplicate votes on proposals and elections ------------- *)

\* a moderator (the creator), a council member and a plain member
VoteRows == {<<"u1", "moderator">>, <<"u2", "council">>, <<"u3", "member">>}

InitVote == InitCommunity(VoteRows)

VoteSteps(p) ==
    \/ SpendRead(p)
    \/ SpendWrite(p)
    \/ PropInsert(p)
    \/ PropVote(p)
    \/ PropLedger(p)
    \/ PropMsg(p)
    \/ VoteCheck(p)
    \/ VoteInsert(p)
    \/ ResolveRead(p)
    \/ ECreateCheck(p)
    \/ ECreateInsert(p)
    \/ EVoteRead(p)
    \/ EVoteCand(p)
    \/ EVoteCheck(p)
    \/ EVoteInsert(p)

NextVote ==
    \/ \E p \in Handlers : StartTipCreate(p, "u1", MinStake)
    \/ \E p \in Handlers, u \in {"u2", "u3"}, c \in {"accept", "decline"} :
          \E pid \in 1..Len(proposals) : StartTipVote(p, pid, u, c)
    \/ \E p \in Handlers, u \in {"u1", "u2"} : StartElectionCreate(p, u)
    \/ \E p \in Handlers, u \in {"u2", "u3"}, c \in {"u1", "u3"} :
          \E eid \in 1..Len(elections) : StartElectionVote(p, eid, u, c)
    \/ \E p \in Handlers : VoteSteps(p)

SpecVote == InitVote /\ [][NextVote]_vars

(* C7: a vote request of a user who already has a vote on the proposal or  *)
(* the election fails with ALREADY_VOTED and records nothing, both when    *)
(* its pre-check select finds the vote and when its insert is rejected by  *)
(* the store after the pre-check passed.                                   *)
DuplicateVoteIsConflict ==
    [][\A p \in Handlers :
          /\ (/\ hs[p].op = "tvote"
              /\ hs[p].pc \in {"vote_check", "vote_insert"}
              /\ HasVoted(hs[p].ref, hs[p].u)
              /\ hs'[p] # hs[p])
                => (hs'[p].err = "ALREADY_VOTED" /\ votes' = votes)
          /\ (/\ hs[p].op = "evote"
              /\ hs[p].pc \in {"evote_check", "evote_insert"}
              /\ EHasVoted(hs[p].ref, hs[p].u)
              /\ hs'[p] # hs[p])
                => (hs'[p].err = "ALREADY_VOTED" /\ evotes' = evotes)]_vars

(* C8: in every reachable state there is at most one vote row for a        *)
(* (proposal, user) and at most one for an (election, voter).              *)
OneVotePerVoter ==
    /\ \A i, j \in 1..Len(votes) :
          (votes[i].proposal = votes[j].proposal /\ votes[i].user = votes[j].user)
             => i = j
    /\ \A i, j \in 1..Len(evotes) :
          (evotes[i].election = evotes[j].election
             /\ evotes[i].voter = evotes[j].voter) => i = j

\* two racing votes of one user on a proposal: both passed the pre-check,
\* one was recorded, the other was rejected at the insert
RacingVoteRejected ==
    \E p, q \in Handlers :
        /\ p # q
        /\ hs[p].op = "tvote" /\ hs[q].op = "tvote"
        /\ hs[p].ref = hs[q].ref /\ hs[p].u = hs[q].u
        /\ hs[p].pc = "done" /\ hs[p].err = ""
        /\ hs[q].pc = "done" /\ hs[q].err \notin {"", "ALREADY_VOTED", "FORBIDDEN",
                                                  "PROPOSAL_EXPIRED"}
        /\ Len(VotesOf(hs[p].ref)) = 2

(* ------------------------- closing an election ------------------------- *)

\* a moderator (the creator) and two council members
ElectRows == {<<"u1", "moderator">>, <<"u2", "council">>, <<"u3", "council">>}

ElectVoters == <<"u1", "u2", "u3">>
ElectCandidates == {"u1", "u2"}

\* an active election and the votes cast on it so far, one after another
InitElect ==
    /\ memberRows = ElectRows
    /\ balances = [u \in Users |-> FreshBalance(DefaultDailyBudget)]
    /\ spentOk = [u \in Users |-> 0]
    /\ duplicates = [u \in Users |-> 0]
    /\ ledger = JoinLedger(Users, balances)
    /\ declarations = <<>>
    /\ borrows = <<>>
    /\ messages = EmptyBag
    /\ sunsets = {}
    /\ CacheEmpty
    /\ StreakIdle
    /\ proposals = <<>>
    /\ votes = <<>>
    /\ refunded = <<>>
    /\ elections = <<[status |-> "active", winner |-> NoUser]>>
    /\ \E k \in 0..Len(ElectVoters) : \E f \in [1..k -> ElectCandidates] :
          evotes = [i \in 1..k |->
                       [election |-> 1, voter |-> ElectVoters[i],
                        candidate |-> f[i], created_at |-> i]]
    /\ now = 0
    /\ hs = [p \in Handlers |-> IdleFrame]
    /\ job = IdleJob
    /\ nops = 0

ElectSteps(p) ==
    \/ EVoteRead(p)
    \/ EVoteCand(p)
    \/ EVoteCheck(p)
    \/ EVoteInsert(p)
    \/ ECloseRead(p)
    \/ ECloseVotes(p)
    \/ ECloseWrite(p)
    \/ ECloseModCheck(p)
    \/ ECloseModInsert(p)
    \/ ECloseAnnounce(p)

NextElect ==
    \/ \E p \in Handlers, u \in Users, c \in ElectCandidates :
          StartElectionVote(p, 1, u, c)
    \/ \E p \in Handlers, u \in {"u1", "u2"} : StartElectionClose(p, 1, u)
    \/ \E p \in Handlers : ElectSteps(p)

SpecElect == InitElect /\ [][NextElect]_vars

\* the close request p writes the election in this step
CloseWrites(p) ==
    hs[p].op = "eclose" /\ hs[p].pc = "eclose_write" /\ hs'[p] # hs[p]

\* the earliest created_at among the votes for a candidate
EarliestVote(rows, c) ==
    CHOOSE t \in {rows[i].created_at : i \in {j \in 1..Len(rows) : rows[j].candidate = c}} :
        \A i \in 1..Len(rows) : rows[i].candidate = c => t <= rows[i].created_at

(* C11: when several candidates share the maximum count in the votes a     *)
(* close tallies, the winner it stores is a tied candidate whose first     *)
(* vote has the earliest created_at among the tied ones, in whatever order *)
(* the rows and the candidates come.                                       *)
TieGoesToEarliestVote ==
    [][\A p \in Handlers :
          (CloseWrites(p) /\ Cardinality(Tied(hs[p].rows)) > 1)
          => LET rows == hs[p].rows
                 w == elections'[hs[p].ref].winner
             IN /\ w \in Tied(rows)
                /\ \A d \in Tied(rows) :
                      EarliestVote(rows, w) <= EarliestVote(rows, d)]_vars

\* a close has stored the winner of a tie: the tied candidate voted for
\* first, the other one strictly later
TieBroken ==
    \E p \in Handlers :
        /\ hs[p].op = "eclose" /\ hs[p].pc = "eclose_mod"
        /\ Cardinality(Tied(hs[p].rows)) = 2
        /\ elections[hs[p].ref].winner = hs[p].v
        /\ \A d \in Tied(hs[p].rows) \ {hs[p].v} :
              EarliestVote(hs[p].rows, hs[p].v) < EarliestVote(hs[p].rows, d)

(* C12: a close that completes an active election stores status completed *)
(* and as winner null when it tallied no vote, otherwise a candidate whose *)
(* count is the maximum over all candidates (the only one when no other    *)
(* candidate has that count).                                              *)
CloseStoresLeader ==
    [][\A p \in Handlers :
          CloseWrites(p)
          => LET rows == hs[p].rows
                 w == elections'[hs[p].ref].winner
             IN /\ elections'[hs[p].ref].status = "completed"
                /\ rows = <<>> => w = NoUser
                /\ rows # <<>>
                      => /\ w \in Voted(rows)
                         /\ \A c \in Voted(rows) :
                               CountOf(rows, c) <= CountOf(rows, w)]_vars

\* a close has stored the single leader of three votes, two to one
LeaderStored ==
    \E p \in Handlers :
        /\ hs[p].op = "eclose" /\ hs[p].pc = "eclose_mod"
        /\ Len(hs[p].rows) = 3
        /\ Cardinality(Voted(hs[p].rows)) = 2
        /\ elections[hs[p].ref].status = "completed"
        /\ elections[hs[p].ref].winner = hs[p].v
        /\ CountOf(hs[p].rows, hs[p].v) = 2

(* ------------------------- creating elections -------------------------- *)

CreateSteps(p) ==
    \/ ECreateCheck(p)
    \/ ECreateInsert(p)
    \/ ECloseRead(p)
    \/ ECloseVotes(p)
    \/ ECloseWrite(p)

NextCreate ==
    \/ \E p \in Handlers, u \in {"u1", "u2"} : StartElectionCreate(p, u)
    \/ \E p \in Handlers : \E eid \in 1..Len(elections) :
          StartElectionClose(p, eid, "u1")
    \/ \E p \in Handlers : CreateSteps(p)

SpecCreate == InitVote /\ [][NextCreate]_vars

\* the active elections of the community
ActiveElections == {i \in 1..Len(elections) : elections[i].status = "active"}

(* C13: at every moment the community has at most one active election,    *)
(* also when two creates run concurrently; and a create whose check finds  *)
(* an active election fails with Conflict and inserts nothing.             *)
OneActiveElection ==
    /\ [](Cardinality(ActiveElections) <= 1)
    /\ [][\A p \in Handlers :
             (At(p, "ecreate", "ecreate_check") /\ ActiveElection
                /\ hs'[p] # hs[p])
             => (hs'[p].err = "CONFLICT" /\ elections' = elections)]_vars

(* --------------------------- the deadline sweep ------------------------ *)

\* proposals created a day ago and just now
SweepDeadlines == {0, DeadlineHours}

\* one or two announced proposals of u1, nobody else has voted yet
InitSweep ==
    \E k \in 1..2 : \E d \in [1..k -> SweepDeadlines] :
        /\ \A i \in 1..(k - 1) : d[i] <= d[i + 1]
        /\ memberRows = TwoRows
        /\ balances = [u \in Users |->
              IF u = "u1"
              THEN BalanceRow(DefaultDailyBudget, k * MinStake,
                              DefaultDailyBudget - k * MinStake, 0, 0)
              ELSE IF u = "u2" THEN FreshBalance(DefaultDailyBudget) ELSE NoRow]
        /\ spentOk = [u \in Users |-> IF u = "u1" THEN k * MinStake ELSE 0]
        /\ duplicates = [u \in Users |-> 0]
        /\ ledger = JoinLedger({"u1", "u2"}, balances)
                      (+) SetToBag({LedgerEntry("u1", "tip_to_tip", -MinStake, i) :
                                      i \in 1..k})
        /\ declarations = <<>>
        /\ borrows = <<>>
        /\ messages = SetToBag({[user |-> "u1", type |-> "tip_to_tip", ref |-> i] :
                                  i \in 1..k})
        /\ sunsets = {}
        /\ CacheEmpty
        /\ StreakIdle
        /\ proposals = [i \in 1..k |->
              [proposer |-> "u1", stake |-> MinStake, deadline |-> d[i],
               status |-> "active"]]
        /\ votes = [i \in 1..k |->
              [proposal |-> i, user |-> "u1", vote |-> "accept"]]
        /\ refunded = [i \in 1..k |-> 0]
        /\ elections = <<>>
        /\ evotes = <<>>
        /\ now = 0
        /\ hs = [p \in Handlers |-> IdleFrame]
        /\ job = IdleJob
        /\ nops = 0

NextSweep ==
    \/ StartExpiry
    \/ ExpireWrite
    \/ Tick

SpecSweep == InitSweep /\ [][NextSweep]_vars

\* a call of expire_overdue starts / updates a proposal in this step
SweepStarts == nops' = nops + 1 /\ job'.op = "expiry"
SweepWrites == job.op = "expiry" /\ job.pc = "expire_write" /\ job' # job

\* the first call: it lists exactly the active proposals with deadline <
\* now, expires each of them once and returns them
SweepExpiresOverdue ==
    /\ SweepStarts
          => {job'.list[i] : i \in 1..Len(job'.list)} = Overdue(now)
    /\ SweepWrites
          => /\ proposals[job.list[1]].status = "active"
             /\ proposals[job.list[1]].deadline < job.at
             /\ proposals'[job.list[1]].status = "expired"
             /\ job'.ret = Append(job.ret, job.list[1])

\* a call that follows a finished call
SecondSweepStarts == SweepStarts /\ job.op = "expiry" /\ job.pc = "done"

(* C14 as stated: of two calls of expire_overdue in a row, with no vote    *)
(* and no new proposal in between, the first expires and returns exactly    *)
(* the overdue active proposals, each once, and the second returns an      *)
(* empty list and changes nothing.                                          *)
SecondSweepEmpty ==
    [][/\ SweepExpiresOverdue
       /\ SecondSweepStarts
             => (job'.pc = "done" /\ job'.ret = <<>> /\ job'.list = <<>>)]_vars

(* C14 amended: the second call finds nothing when no deadline has passed *)
(* since the first call read the clock; what it finds otherwise are        *)
(* proposals whose deadline passed after that, never one the first call    *)
(* returned.                                                               *)
SecondSweepOnlyNewlyOverdue ==
    [][/\ SweepExpiresOverdue
       /\ SecondSweepStarts
             => /\ \A i \in 1..Len(job'.list) :
                      /\ proposals[job'.list[i]].deadline >= job.at
                      /\ \A j \in 1..Len(job.ret) : job.ret[j] # job'.list[i]
                /\ (\A i \in 1..Len(proposals) :
                       proposals[i].deadline >= job.at
                          => proposals[i].deadline >= now)
                      => (job'.pc = "done" /\ job'.ret = <<>>
                            /\ job'.list = <<>>)]_vars

\* a second call has followed, at the same clock, a call that expired a
\* proposal: it has finished with nothing to return
SecondSweepDone ==
    /\ job.op = "expiry" /\ job.pc = "done" /\ job.ret = <<>>
    /\ job.at = now
    /\ nops >= 2
    /\ \E i \in 1..Len(proposals) :
          proposals[i].status = "expired" /\ proposals[i].deadline < now

(* --------------------------- borrow requests --------------------------- *)

BorrowSteps(p) ==
    \/ BorrowInsert(p)
    \/ XferReadLender(p)
    \/ XferReadBorrower(p)
    \/ XferWriteLender(p)
    \/ XferWriteBorrower(p)
    \/ BorrowApprove(p)
    \/ BorrowGiven(p)
    \/ BorrowReceived(p)
    \/ BorrowDecline(p)
    \/ BorrowMsg(p)

NextBorrow ==
    \/ \E p \in Handlers, b \in BalUsers, l \in BalUsers, a \in SeqAmounts :
          StartBorrowCreate(p, b, l, a)
    \/ \E p \in Handlers, u \in BalUsers, c \in {"approved", "declined"} :
          \E rid \in 1..Len(borrows) : StartRespond(p, rid, u, c)
    \/ \E p \in Handlers : BorrowSteps(p)

SpecBorrow == InitBal /\ [][NextBorrow]_vars

\* the lender's and the borrower's ledger entries of an approved request
GivenEntry(rid) ==
    LedgerEntry(borrows[rid].lender, "borrow_given", -borrows[rid].amount, rid)
ReceivedEntry(rid) ==
    LedgerEntry(borrows[rid].borrower, "borrow_received", borrows[rid].amount, rid)

(* C15: a borrow request leaves pending once: after it is approved or      *)
(* declined its status never changes, and a respond of the lender that     *)
(* finds it resolved fails with Conflict; two concurrent responds take     *)
(* effect at most once, so the amount moves from the lender to the         *)
(* borrower once (balances start at the daily budget and only the request  *)
(* moves them) and is entered in the ledger once.                          *)
BorrowResolvedOnce ==
    /\ [][\A rid \in 1..Len(borrows) :
             borrows[rid].status # "pending"
                => borrows'[rid].status = borrows[rid].status]_vars
    /\ [][\A p \in Handlers :
             (/\ hs'[p] # hs[p] /\ hs'[p].op = "respond" /\ Free(p)
              /\ borrows[hs'[p].ref].status # "pending"
              /\ hs'[p].err # "FORBIDDEN")
                => hs'[p].pc = "done" /\ hs'[p].err = "CONFLICT"]_vars
    /\ [](\A rid \in 1..Len(borrows) :
             /\ CopiesIn(GivenEntry(rid), ledger) <= 1
             /\ CopiesIn(ReceivedEntry(rid), ledger) <= 1
             /\ balances[borrows[rid].lender].remaining
                   >= DefaultDailyBudget - borrows[rid].amount
             /\ balances[borrows[rid].borrower].debt <= borrows[rid].amount)

(* ------------------ a vote recorded but not resolved ------------------- *)

InitStop == InitCommunity(TwoRows)

NextStop ==
    \/ \E p \in Handlers : StartTipCreate(p, "u1", MinStake)
    \/ \E p \in Handlers, u \in {"u1", "u2"}, c \in {"accept", "decline"} :
          \E pid \in 1..Len(proposals) : StartTipVote(p, pid, u, c)
    \/ \E p \in Handlers : TipSteps(p)
    \/ \E p \in Handlers : VoteStops(p)
    \/ ScheduledExpiry
    \/ ExpireWrite
    \/ Tick

\* requests that are running go on, the scheduler keeps running the sweep
\* (an interval job), time passes
SpecStop ==
    /\ InitStop
    /\ [][NextStop]_vars
    /\ WF_vars(\E p \in Handlers : TipSteps(p))
    /\ WF_vars(ScheduledExpiry \/ ExpireWrite)
    /\ WF_vars(Tick)

\* every member has an accept vote on the proposal, the deadline has not
\* passed (and is one that the clock of the model goes past), the proposal
\* is active and the request of a vote stopped before its resolution
StoppedBeforeResolution(pid) ==
    /\ pid <= Len(proposals)
    /\ proposals[pid].status = "active"
    /\ now <= proposals[pid].deadline
    /\ proposals[pid].deadline < MaxNow
    /\ AllVoted(pid) /\ ~AnyDecline(pid)
    /\ \E p \in Handlers :
          hs[p].op = "tvote" /\ hs[p].ref = pid /\ hs[p].err = "STOPPED"

\* the proposal exists and has the status
StatusIs(pid, status) ==
    pid <= Len(proposals) /\ proposals[pid].status = status

(* C16: when every member has an accept vote on a proposal before its      *)
(* deadline and the request of the last vote stopped between the vote      *)
(* insert and the resolution, the proposal still eventually is completed   *)
(* with its stake refunded once, and it is never expired.                  *)
StoppedVoteRecovers ==
    \A pid \in 1..MaxProps :
        /\ StoppedBeforeResolution(pid)
              ~> (StatusIs(pid, "completed") /\ refunded[pid] = 1)
        /\ [](StoppedBeforeResolution(pid) => [](~StatusIs(pid, "expired")))

(* -------------------- the sweep as a scheduled job --------------------- *)

NextSched ==
    \/ \E p \in Handlers : StartTipCreate(p, "u1", MinStake)
    \/ \E p \in Handlers, u \in {"u1", "u2"}, c \in {"accept", "decline"} :
          \E pid \in 1..Len(proposals) : StartTipVote(p, pid, u, c)
    \/ \E p \in Handlers : TipSteps(p)
    \/ ScheduledExpiry
    \/ ExpireWrite
    \/ Tick

\* the scheduler keeps running the sweep; nothing is assumed of the
\* requests, which may stop or never come
SpecSched ==
    /\ InitStop
    /\ [][NextSched]_vars
    /\ WF_vars(ScheduledExpiry \/ ExpireWrite)

\* the proposal is active and its deadline has passed
PastDeadline(pid) ==
    /\ StatusIs(pid, "active")
    /\ proposals[pid].deadline < now

(* C17: with the deadline sweep run again and again (weak fairness on the  *)
(* sweep job), an active proposal whose deadline has passed eventually     *)
(* has a terminal status, and unless a vote request that began earlier is  *)
(* still running it eventually is expired, even if no vote ever arrives.   *)
OverdueEventuallyExpired ==
    \A pid \in 1..MaxProps :
        /\ PastDeadline(pid)
              ~> (StatusIs(pid, "expired") \/ StatusIs(pid, "completed"))
        /\ (PastDeadline(pid) /\ ~VoteInFlight(pid))
              ~> StatusIs(pid, "expired")

\* the sweep has expired a proposal whose deadline had passed
SweptAfterDeadline ==
    /\ job.op = "expiry" /\ job.pc = "done" /\ job.ret # <<>>
    /\ StatusIs(job.ret[1], "expired")
    /\ proposals[job.ret[1]].deadline < job.at

(* ----------------------- creating a proposal --------------------------- *)

\* the handler's create has returned its proposal; the chamber message is
\* not yet inserted
CreateReturned(p) == At(p, "tcreate", "prop_msg")

\* the proposer's vote / the stake's ledger entry of the handler's proposal
ProposerVote(p) == [proposal |-> hs[p].ref, user |-> hs[p].u, vote |-> "accept"]
StakeEntry(p) == LedgerEntry(hs[p].u, "tip_to_tip", -hs[p].amt, hs[p].ref)

\* the steps of create
TipCreateSteps(p) ==
    \/ SpendRead(p)
    \/ SpendWrite(p)
    \/ PropInsert(p)
    \/ PropVote(p)
    \/ PropLedger(p)
    \/ PropMsg(p)

\* a proposer's create and declaration, side by side
RaceSteps(p) ==
    \/ TipCreateSteps(p)
    \/ DeclInsert(p)
    \/ MsgInsert(p)
    \/ DeclLedger(p)

NextRace ==
    \/ \E p \in Handlers, u \in BalUsers : StartTipCreate(p, u, MinStake)
    \/ \E p \in Handlers, u \in BalUsers, a \in DeclareAmounts :
          StartDeclare(p, u, a)
    \/ \E p \in Handlers : RaceSteps(p)

SpecRace == InitBal /\ [][NextRace]_vars

(* C18: a successful create leaves the proposer's remaining lower by the   *)
(* stake and spent_today higher by the stake (its update of the balance    *)
(* lowers the stored remaining and raises the stored spent_today by the    *)
(* stake), one new proposal, active, of that proposer and stake, whose     *)
(* deadline is the time of its insert plus 24 hours, exactly one vote on   *)
(* it, the proposer's accept, and one ledger entry of type tip_to_tip with *)
(* amount -stake that references the proposal.                             *)
CreateEffects ==
    /\ [](\A p \in Handlers : CreateReturned(p) =>
            LET u == hs[p].u
                pid == hs[p].ref
            IN /\ hs[p].amt >= MinStake
               /\ proposals[pid].proposer = u
               /\ proposals[pid].stake = hs[p].amt
               /\ proposals[pid].status = "active" \/ now > proposals[pid].deadline
               /\ VotesOf(pid) = <<ProposerVote(p)>>
               /\ CopiesIn(StakeEntry(p), ledger) = 1
               /\ \A e \in BagToSet(ledger) :
                     (e.type = "tip_to_tip" /\ e.ref = pid) => e = StakeEntry(p))
    /\ [][\A p \in Handlers :
            /\ (At(p, "tcreate", "spend_write") /\ hs'[p] # hs[p]) =>
                  LET u == hs[p].u
                  IN /\ balances'[u].remaining
                           = balances[u].remaining - hs[p].amt
                     /\ balances'[u].spent_today
                           = balances[u].spent_today + hs[p].amt
            /\ (At(p, "tcreate", "prop_insert") /\ hs'[p] # hs[p]) =>
                  /\ Len(proposals') = Len(proposals) + 1
                  /\ proposals'[Len(proposals')].status = "active"
                  /\ proposals'[Len(proposals')].deadline = now + DeadlineHours]_vars

(* ------------------------- refused creates ----------------------------- *)

\* stakes below and at the minimum, and the whole daily budget
RefuseStakes == {MinStake - 1, MinStake, DefaultDailyBudget}

NextRefuse ==
    \/ \E p \in Handlers, u \in Users, a \in RefuseStakes :
          StartTipCreate(p, u, a)
    \/ \E p \in Handlers : TipCreateSteps(p)

\* proposers with nothing, a part or all of the daily budget remaining
SpecRefuse == InitSeq /\ [][NextRefuse]_vars

\* the step in which the handler's create raises
CreateRaises(p) ==
    hs'[p] # hs[p] /\ hs'[p].op = "tcreate" /\ hs'[p].err # ""

(* C19: a create that fails changes nothing: with a stake below 50 it      *)
(* fails with InvalidInput before any store request, with a remaining      *)
(* below the stake it fails with InsufficientFunds at the funds check of   *)
(* spend_cc; in both cases no proposal, vote or ledger entry is created,   *)
(* the balance is unchanged, and nothing was written before the failure.   *)
FailedCreateChangesNothing ==
    [][\A p \in Handlers :
          /\ CreateRaises(p) =>
                /\ UNCHANGED <<balances, proposals, votes, ledger, messages>>
                /\ Free(p) \/ hs[p].pc = "spend_read"
                /\ hs'[p].err = "INVALID_INPUT" <=> hs'[p].amt < MinStake
                /\ hs'[p].err = "INSUFFICIENT_CC"
                      => balances[hs'[p].u].remaining < hs'[p].amt
          /\ (hs'[p] # hs[p] /\ hs'[p].op = "tcreate" /\ Free(p)
                /\ hs'[p].amt < MinStake) => hs'[p].err = "INVALID_INPUT"
          /\ (At(p, "tcreate", "spend_read") /\ hs'[p] # hs[p]
                /\ balances[hs[p].u].remaining < hs[p].amt)
                => hs'[p].err = "INSUFFICIENT_CC"]_vars

\* a create was refused for lack of funds / for its stake
CreateRefusedFunds ==
    \E p \in Handlers : hs[p].op = "tcreate" /\ hs[p].err = "INSUFFICIENT_CC"
                           /\ hs[p].amt >= MinStake

(* ------------------------- refused votes ------------------------------- *)

\* the step in which the handler begins a vote on the proposal
VoteBegins(p, pid) ==
    Free(p) /\ hs'[p] # hs[p] /\ hs'[p].op = "tvote" /\ hs'[p].ref = pid

(* C20: a vote on a proposal whose status is not active fails with         *)
(* Conflict and changes nothing; a vote on an active proposal cast after   *)
(* its deadline (now > deadline) fails with Conflict, records no vote,     *)
(* sets the proposal's status to expired and refunds nothing.              *)
LateVoteExpires ==
    [][\A p \in Handlers :
          /\ \A pid \in 1..Len(proposals) :
                /\ (VoteBegins(p, pid) /\ proposals[pid].status # "active")
                      => /\ hs'[p].pc = "done"
                         /\ hs'[p].err \in ConflictCodes
                         /\ UNCHANGED <<balances, proposals, votes, ledger,
                                        refunded>>
                /\ (VoteBegins(p, pid) /\ proposals[pid].status = "active"
                      /\ now > proposals[pid].deadline)
                      => /\ hs'[p].pc = "vote_expire"
                         /\ UNCHANGED <<balances, proposals, votes, ledger,
                                        refunded>>
                /\ (VoteBegins(p, pid) /\ proposals[pid].status = "active"
                      /\ now <= proposals[pid].deadline)
                      => hs'[p].err = ""
          /\ (At(p, "tvote", "vote_expire") /\ hs'[p] # hs[p])
                => /\ hs'[p].pc = "done"
                   /\ hs'[p].err \in ConflictCodes
                   /\ proposals'[hs[p].ref].status = "expired"
                   /\ \A i \in 1..Len(proposals) :
                         i # hs[p].ref => proposals'[i] = proposals[i]
                   /\ UNCHANGED <<balances, votes, ledger, refunded>>]_vars

\* a vote cast after the deadline was refused and expired the proposal: the
\* sweep has not run and no decline was cast, so nothing else expired it
LateVoteRefused ==
    \E p \in Handlers :
        /\ hs[p].op = "tvote" /\ hs[p].pc = "done"
        /\ hs[p].err = "PROPOSAL_EXPIRED"
        /\ proposals[hs[p].ref].status = "expired"
        /\ now > proposals[hs[p].ref].deadline
        /\ ~AnyDecline(hs[p].ref)
        /\ job.op = "idle"

(* ------------------- votes before every member voted ------------------- *)

\* the handler's vote request takes a step
VoteStep(p) == hs[p].op = "tvote" /\ ~Free(p) /\ hs'[p] # hs[p]

(* C21: while an active proposal has fewer votes than the community has    *)
(* distinct members, a successful vote, accept or decline, changes         *)
(* neither the proposal's status nor a balance: its resolution reads the   *)
(* votes, finds them short and returns resolved = false, also when a       *)
(* decline is among them.                                                  *)
PartialVoteKeepsActive ==
    [][\A p \in Handlers :
          /\ (VoteStep(p) /\ hs[p].pc \in {"vote_check", "vote_insert"})
                => UNCHANGED <<proposals, balances, ledger, refunded>>
          /\ (VoteStep(p) /\ hs[p].pc = "resolve_read"
                /\ Len(VotesOf(hs[p].ref)) < Cardinality(Members))
                => /\ hs'[p].pc = "done"
                   /\ hs'[p].err = "" /\ hs'[p].out = ""
                   /\ UNCHANGED <<proposals, balances, ledger, refunded>>]_vars

\* a decline was cast on a proposal that not every member has voted on:
\* the vote has returned unresolved and the proposal is active
DeclineKeptActive ==
    \E p \in Handlers :
        /\ hs[p].op = "tvote" /\ hs[p].pc = "done"
        /\ hs[p].choice = "decline" /\ hs[p].err = "" /\ hs[p].out = ""
        /\ HasVoted(hs[p].ref, hs[p].u)
        /\ Len(VotesOf(hs[p].ref)) < Cardinality(Members)
        /\ proposals[hs[p].ref].status = "active"

(* ------------------ the sweep beside resolving votes ------------------- *)

(* C22: expire_overdue changes only proposals that are active with         *)
(* deadline < now, sets each of them to expired and returns exactly those  *)
(* rows; it changes no balance, ledger entry or vote, and no proposal that *)
(* is completed, already expired or not yet overdue, also when votes that  *)
(* resolve a proposal run beside it.                                       *)
SweepTouchesOnlyOverdue ==
    [][/\ (job'.op = "expiry" /\ job' # job /\ job.pc \in {"idle", "done"})
             => {job'.list[i] : i \in 1..Len(job'.list)} = Overdue(now)
       /\ SweepWrites
             => /\ proposals[job.list[1]].status = "active"
                /\ proposals[job.list[1]].deadline < job.at
                /\ proposals' = [proposals EXCEPT ![job.list[1]].status = "expired"]
                /\ job'.ret = Append(job.ret, job.list[1])
                /\ UNCHANGED <<balances, ledger, votes, refunded>>]_vars

(* --------------------- closing a closed election ----------------------- *)

\* the handler's close request reads an election that is not active
CloseFindsClosed(p) ==
    /\ At(p, "eclose", "eclose_read") /\ hs'[p] # hs[p]
    /\ elections[hs[p].ref].status # "active"

(* C23: close on an election that is already completed is a no-op: it      *)
(* returns the election unchanged, rewrites neither status nor winner_id,  *)
(* adds no moderator row and creates no announcement; a completed election *)
(* never is active again, so a close that follows a finished close has no  *)
(* effect.                                                                 *)
ClosedElectionUntouched ==
    [][/\ \A p \in Handlers : CloseFindsClosed(p) =>
             /\ hs'[p].pc = "done" /\ hs'[p].err = ""
             /\ hs'[p].out = "unchanged"
             /\ UNCHANGED <<elections, evotes, memberRows, messages, ledger>>
       /\ \A e \in 1..Len(elections) :
             elections[e].status = "completed"
                => elections'[e].status = "completed"]_vars

\* a close has returned the completed election unchanged
CloseWasNoOp ==
    \E p \in Handlers :
        /\ hs[p].op = "eclose" /\ hs[p].pc = "done" /\ hs[p].out = "unchanged"
        /\ elections[hs[p].ref].status = "completed"

(* ------------------------ the winner's role ---------------------------- *)

\* the handler's close has completed the election with a winner
ClosedWithWinner(p) ==
    /\ hs[p].op = "eclose" /\ hs[p].pc = "done"
    /\ hs[p].out = "completed" /\ hs[p].v # NoUser

(* C24: after close completes an election with a winner, the winner holds  *)
(* the moderator role; no step takes a membership row away, so every user  *)
(* who held moderator before still holds it; and a close that finds the    *)
(* winner's moderator row inserts no membership row.                       *)
WinnerIsModerator ==
    /\ [](\A p \in Handlers :
             ClosedWithWinner(p) => "moderator" \in RolesOf(hs[p].v))
    /\ [][/\ memberRows \subseteq memberRows'
          /\ \A p \in Handlers :
                (At(p, "eclose", "eclose_mod") /\ hs'[p] # hs[p]
                   /\ <<hs[p].v, "moderator">> \in memberRows)
                   => (hs'[p].pc = "eclose_announce"
                         /\ memberRows' = memberRows)
          /\ \A p \in Handlers :
                (hs[p].op = "eclose" /\ ~Free(p) /\ hs'[p] # hs[p])
                   => memberRows' \subseteq
                         memberRows \cup {<<hs[p].v, "moderator">>}]_vars

\* a council member has won, holds moderator now, and the moderator who
\* closed the election still holds it
CouncilWinnerPromoted ==
    \E p \in Handlers :
        /\ ClosedWithWinner(p)
        /\ <<hs[p].v, "council">> \in memberRows
        /\ <<hs[p].v, "moderator">> \in memberRows
        /\ hs[p].u # hs[p].v
        /\ <<hs[p].u, "moderator">> \in memberRows

(* ------------------------ roles of the actors -------------------------- *)

RoleSteps(p) ==
    \/ ECreateCheck(p)
    \/ ECreateInsert(p)
    \/ EVoteRead(p)
    \/ EVoteCand(p)
    \/ EVoteCheck(p)
    \/ EVoteInsert(p)
    \/ ECloseRead(p)
    \/ ECloseVotes(p)
    \/ ECloseWrite(p)
    \/ ECloseModCheck(p)
    \/ ECloseModInsert(p)
    \/ ECloseAnnounce(p)

\* the actors and the candidates: a moderator, a council member, a plain
\* member
NextRoles ==
    \/ \E p \in Handlers, u \in Users : StartElectionCreate(p, u)
    \/ \E p \in Handlers, u \in Users, c \in Users :
          \E eid \in 1..Len(elections) : StartElectionVote(p, eid, u, c)
    \/ \E p \in Handlers, u \in Users :
          \E eid \in 1..Len(elections) : StartElectionClose(p, eid, u)
    \/ \E p \in Handlers : RoleSteps(p)

\* one member of each kind
InitRoles == InitCommunity(VoteRows)

SpecRoles == InitRoles /\ [][NextRoles]_vars

\* the roles ensure_roles is called with by create, close and vote
RequiredRoles(op) ==
    IF op = "evote" THEN {"council", "moderator"} ELSE {"moderator"}

\* the handler begins an election request
ElectionRequestBegins(p) ==
    Free(p) /\ hs'[p] # hs[p] /\ hs'[p].op \in {"ecreate", "eclose", "evote"}

(* C25: create and close by an actor who does not hold moderator, and vote *)
(* by an actor who holds neither council nor moderator, fail with          *)
(* Forbidden before any effect: every election, election vote and          *)
(* membership row is unchanged; actors with a required role are not        *)
(* refused for their role.                                                 *)
RolesEnforced ==
    [][\A p \in Handlers : ElectionRequestBegins(p) =>
          /\ (RolesOf(hs'[p].u) \cap RequiredRoles(hs'[p].op) = {})
                <=> hs'[p].err = "FORBIDDEN"
          /\ hs'[p].err = "FORBIDDEN"
                => /\ hs'[p].pc = "done"
                   /\ UNCHANGED <<elections, evotes, memberRows, messages>>]_vars

\* a plain member's vote and a council member's close were refused
PlainMemberRefused ==
    \E p \in Handlers :
        /\ hs[p].op \in {"evote", "eclose"} /\ hs[p].pc = "done"
        /\ hs[p].err = "FORBIDDEN"
        /\ RolesOf(hs[p].u) \cap RequiredRoles(hs[p].op) = {}
        /\ RolesOf(hs[p].u) # {}

(* --------------------------- candidates -------------------------------- *)

\* the user is a member holding council or moderator
HoldsOffice(u) == \E role \in {"council", "moderator"} : <<u, role>> \in memberRows

(* C26: every recorded election vote names a candidate who, when the vote  *)
(* was accepted, was a member holding council or moderator (membership     *)
(* rows are never removed, so the candidate still is one); a vote for any  *)
(* other candidate fails with NotFound and records nothing.                *)
VotesNameCandidates ==
    /\ [](\A i \in 1..Len(evotes) : HoldsOffice(evotes[i].candidate))
    /\ [][\A p \in Handlers :
             /\ (At(p, "evote", "evote_cand") /\ hs'[p] # hs[p]
                   /\ ~HoldsOffice(hs[p].v))
                   => /\ hs'[p].pc = "done" /\ hs'[p].err = "NOT_FOUND"
                      /\ evotes' = evotes
             /\ (At(p, "evote", "evote_insert") /\ hs'[p] # hs[p]
                   /\ evotes' # evotes)
                   => /\ HoldsOffice(hs[p].v)
                      /\ evotes'[Len(evotes')].candidate = hs[p].v]_vars

\* a vote for a plain member was refused as not found
PlainCandidateRefused ==
    \E p \in Handlers :
        /\ hs[p].op = "evote" /\ hs[p].pc = "done" /\ hs[p].err = "NOT_FOUND"
        /\ hs[p].v \in Members /\ ~HoldsOffice(hs[p].v)

(* ----------------------------- the cache ------------------------------- *)

\* caches that sets have filled: distinct keys in insertion order, each
\* entry stored with a positive ttl
CacheStates ==
    {c \in UNION {[1..n -> [key : CacheKeys, expires_at : 1..2, value : {"a"}]] :
                     n \in 0..CacheCapacity} :
        \A i, j \in 1..Len(c) : i # j => c[i].key # c[j].key}

InitCache ==
    /\ InitStore(BalRows)
    /\ cache \in CacheStates
    /\ callers = [t \in Threads |-> IdleCaller]
    /\ mono = 0
    /\ StreakIdle

NextCache ==
    \/ \E t \in Threads, k \in CacheKeys : CacheGetBegin(t, k)
    \/ \E t \in Threads : CacheGetLocked(t)
    \/ \E t \in Threads, k \in CacheKeys, ttl \in CacheTtls :
          CacheSetBegin(t, k, "b", ttl)
    \/ \E t \in Threads : CacheSetLocked(t)
    \/ MonoTick

SpecCache == InitCache /\ [][NextCache]_vars

\* the caller's step under the lock
LockedStep(t, op) ==
    callers[t].op = op /\ ~CallerFree(t) /\ callers'[t] # callers[t]

(* C27: a cache entry is observable only inside its validity window: a set *)
(* with ttl <= 0 leaves the cache unchanged; a get returns the stored      *)
(* value exactly when the time it read is before the entry's expiry, and   *)
(* a get at or after the expiry returns absent and removes the entry.      *)
CacheWindow ==
    [][\A t \in Threads :
          /\ (CallerFree(t) /\ callers'[t] # callers[t]
                /\ callers'[t].op = "set" /\ callers'[t].ttl <= 0)
                => (cache' = cache /\ callers'[t].pc = "done")
          /\ LockedStep(t, "set") => callers[t].ttl > 0
          /\ LockedStep(t, "get") =>
                LET k == callers[t].key
                    at == callers[t].at
                    held == {i \in 1..Len(cache) : cache[i].key = k}
                IN /\ held = {} => (callers'[t].ret = Absent /\ cache' = cache)
                   /\ \A i \in held :
                         IF at < cache[i].expires_at
                         THEN /\ callers'[t].ret = cache[i].value
                              /\ cache' = cache
                         ELSE /\ callers'[t].ret = Absent
                              /\ \A j \in 1..Len(cache') : cache'[j].key # k
                              /\ Len(cache') = Len(cache) - 1]_vars

\* a get at or after the expiry of its key's entry has returned absent and
\* the entry is gone
ExpiredEntryEvicted ==
    \E t \in Threads :
        /\ callers[t].op = "get" /\ callers[t].pc = "done"
        /\ callers[t].ret = Absent
        /\ callers[t].entry # NoEntry
        /\ callers[t].entry.expires_at <= callers[t].at
        /\ \A j \in 1..Len(cache) : cache[j].key # callers[t].key

\* the entry a set stores
StoredEntry(t) ==
    [key |-> callers[t].key, expires_at |-> mono + callers[t].ttl,
     value |-> callers[t].value]

\* the cache is within its capacity, and a set at capacity removes the
\* entry inserted earliest and then stores its own
SetEvictsEarliest ==
    /\ [](Len(cache) <= CacheCapacity)
    /\ [][\A t \in Threads :
             LockedStep(t, "set") =>
                IF Len(cache) >= CacheCapacity
                THEN cache' = CachePut(Tail(cache), StoredEntry(t))
                ELSE cache' = CachePut(cache, StoredEntry(t))]_vars

(* C28 as stated: the cache never holds more entries than its capacity    *)
(* under any interleaving of get and set callers; a set with ttl > 0 at   *)
(* capacity first removes the entry inserted earliest and then stores the *)
(* new one; reads never change which entry is the eviction candidate.     *)
CacheBoundedFifo ==
    /\ SetEvictsEarliest
    /\ [][\A t \in Threads :
             (LockedStep(t, "get") /\ cache # <<>>) =>
                (cache' # <<>> /\ cache'[1].key = cache[1].key)]_vars

(* C28 amended: capacity and eviction as stated; a read that returns a    *)
(* value leaves the cache as it was, and a read that returns absent       *)
(* removes at most the expired entry of the key it read and keeps the     *)
(* order of the others, so the eviction candidate changes on a read only  *)
(* when the candidate itself is read after its expiry.                    *)
CacheBoundedFifoOnHit ==
    /\ SetEvictsEarliest
    /\ [][\A t \in Threads :
             LockedStep(t, "get") =>
                /\ callers'[t].ret # Absent => cache' = cache
                /\ cache' \in {cache, CachePop(cache, callers[t].key)}
                /\ (cache # <<>> /\ cache' # cache
                      /\ cache[1].key # callers[t].key)
                      => cache'[1] = cache[1]]_vars

\* a set issued at capacity has removed the earliest entry and stored its own
OldestEvicted ==
    \E t \in Threads :
        /\ callers[t].op = "set" /\ callers[t].pc = "done"
        /\ callers[t].oldest # ""
        /\ callers[t].oldest # callers[t].key
        /\ Len(cache) = CacheCapacity
        /\ cache[Len(cache)].key = callers[t].key
        /\ \A j \in 1..Len(cache) : cache[j].key # callers[t].oldest

(* --------------- the ledger under every balance operation --------------- *)

LedgerSteps(p) ==
    \/ SpendRead(p)
    \/ SpendWrite(p)
    \/ DeclInsert(p)
    \/ MsgInsert(p)
    \/ DeclLedger(p)
    \/ PropInsert(p)
    \/ PropVote(p)
    \/ PropLedger(p)
    \/ PropMsg(p)
    \/ VoteCheck(p)
    \/ VoteInsert(p)
    \/ ResolveRead(p)
    \/ ResolveExpire(p)
    \/ ResolveComplete(p)
    \/ RefundRead(p)
    \/ RefundWrite(p)
    \/ RefundLedger(p)
    \/ BorrowSteps(p)

\* declarations, tip-to-tip creates and votes, borrow requests and responses,
\* the daily reset and the daily sunset, side by side
NextLedger ==
    \/ \E p \in Handlers, u \in BalUsers, a \in DeclareAmounts :
          StartDeclare(p, u, a)
    \/ \E p \in Handlers, u \in BalUsers : StartTipCreate(p, u, MinStake)
    \/ \E p \in Handlers, u \in BalUsers, c \in {"accept", "decline"} :
          \E pid \in 1..Len(proposals) : StartTipVote(p, pid, u, c)
    \/ \E p \in Handlers, b \in BalUsers, l \in BalUsers, a \in SeqAmounts :
          StartBorrowCreate(p, b, l, a)
    \/ \E p \in Handlers, u \in BalUsers, c \in {"approved", "declined"} :
          \E rid \in 1..Len(borrows) : StartRespond(p, rid, u, c)
    \/ \E p \in Handlers : LedgerSteps(p)
    \/ StartReset
    \/ ResetWrite
    \/ ResetLedger
    \/ StartSunset
    \/ SunsetCheck
    \/ SunsetInsert
    \/ SunsetUpdate
    \/ SunsetLedger

SpecLedger == InitBal /\ [][NextLedger]_vars

\* the number of ledger entries of a user
EntriesOf(l, u) ==
    LET S == {e \in BagToSet(l) : e.user = u}
    IN SumOver([e \in S |-> CopiesIn(e, l)], S)

\* the ledger entries a running request has still to write for the user:
\* those of the balance updates it has made
OwedBy(f, u) ==
    IF f.pc \in {"decl_insert", "msg_insert", "decl_ledger",
                 "prop_insert", "prop_vote", "prop_ledger"}
    THEN IF f.u = u THEN 1 ELSE 0
    ELSE IF f.op = "respond" /\ f.pc = "xfer_write_b"
    THEN IF f.u = u THEN 1 ELSE 0
    ELSE IF f.pc \in {"borrow_approve", "borrow_given"}
    THEN (IF f.u = u THEN 1 ELSE 0) + (IF f.v = u THEN 1 ELSE 0)
    ELSE IF f.pc \in {"borrow_received", "refund_ledger"}
    THEN IF f.v = u THEN 1 ELSE 0
    ELSE 0

\* the same for the running job
OwedByJob(u) ==
    IF job.pc \in {"reset_ledger", "sunset_ledger"} /\ job.list[1].user = u
    THEN 1 ELSE 0

Owed(u) ==
    SumOver([p \in Handlers |-> OwedBy(hs[p], u)], Handlers) + OwedByJob(u)

\* this step is an update of the user's cc_balances row
BalanceWrite(u) ==
    \/ \E p \in Handlers :
          /\ hs'[p] # hs[p]
          /\ \/ hs[p].pc \in {"spend_write", "xfer_write_l"} /\ hs[p].u = u
             \/ hs[p].pc \in {"xfer_write_b", "refund_write"} /\ hs[p].v = u
    \/ /\ job' # job
       /\ job.pc \in {"reset_write", "sunset_update"}
       /\ job.list[1].user = u

EnsureBudgets == {DefaultDailyBudget, MinStake}

\* the cc_balances rows of the user
RowsOf(u) == (IF balances[u] = NoRow THEN 0 ELSE 1) + duplicates[u]

StartEnsure(p, u, budget) ==
    /\ Begin(p, [IdleFrame EXCEPT !.op = "ensure", !.pc = "ensure_select",
                                  !.u = u, !.amt = budget])
    /\ BeginOnly

\* select_many with limit 1: return the row found
EnsureSelect(p) ==
    /\ At(p, "ensure", "ensure_select")
    /\ hs' = [hs EXCEPT ![p] =
                 IF balances[hs[p].u] # NoRow
                 THEN [hs[p] EXCEPT !.pc = "done", !.rb = balances[hs[p].u]]
                 ELSE [hs[p] EXCEPT !.pc = "ensure_insert"]]
    /\ ReadOnly

\* insert_one of the fresh row.  When a row of the pair has been inserted
\* since the select, the store either keeps both rows or refuses the
\* second (a unique index on the pair is not part of the sources).
EnsureInsert(p) ==
    /\ At(p, "ensure", "ensure_insert")
    /\ LET u == hs[p].u
           row == FreshBalance(hs[p].amt)
       IN \/ /\ balances[u] = NoRow
             /\ balances' = [balances EXCEPT ![u] = row]
             /\ hs' = [hs EXCEPT ![p] = [hs[p] EXCEPT !.pc = "done", !.rb = row]]
             /\ UNCHANGED duplicates
          \/ /\ balances[u] # NoRow
             /\ duplicates' = [duplicates EXCEPT ![u] = @ + 1]
             /\ hs' = [hs EXCEPT ![p] = [hs[p] EXCEPT !.pc = "done", !.rb = row]]
             /\ UNCHANGED balances
          \/ /\ balances[u] # NoRow
             /\ hs' = [hs EXCEPT ![p] = Fail(hs[p], ExecuteRaises("APIError"))]
             /\ UNCHANGED <<balances, duplicates>>
    /\ UNCHANGED spentOk
    /\ BalanceOnly

\* members and a newcomer call ensure_balance while declarations spend
NextEnsure ==
    \/ \E p \in Handlers, u \in Users, b \in EnsureBudgets : StartEnsure(p, u, b)
    \/ \E p \in Handlers : EnsureSelect(p)
    \/ \E p \in Handlers : EnsureInsert(p)
    \/ \E p \in Handlers, u \in BalUsers, a \in DeclareAmounts :
          StartDeclare(p, u, a)
    \/ \E p \in Handlers : SpendSteps(p)

SpecEnsure == InitBal /\ [][NextEnsure]_vars

\* a step of the handler's ensure_balance call
EnsureStep(p) == hs[p].op = "ensure" /\ ~Free(p) /\ hs'[p] # hs[p]

(* C30: ensure_balance is an idempotent create-or-return: it creates a     *)
(* row with remaining = daily_budget, spent_today = 0, debt = 0 only when  *)
(* the pair has none; a call made when a row exists returns that row and   *)
(* changes nothing, whatever budget is passed; and after any number of     *)
(* calls, one after the other or side by side, the pair has exactly one    *)
(* row.                                                                    *)
EnsureBalanceIdempotent ==
    /\ [](\A p \in Handlers :
             (hs[p].op = "ensure" /\ hs[p].pc = "done" /\ hs[p].err = "")
                => RowsOf(hs[p].u) = 1)
    /\ [][\A p \in Handlers : EnsureStep(p) =>
             LET u == hs[p].u
             IN /\ RowsOf(u)' > RowsOf(u) =>
                      /\ RowsOf(u) = 0
                      /\ balances'[u].remaining = hs[p].amt
                      /\ balances'[u].daily_budget = hs[p].amt
                      /\ balances'[u].spent_today = 0
                      /\ balances'[u].debt = 0
                /\ (hs[p].pc = "ensure_select" /\ RowsOf(u) > 0) =>
                      /\ hs'[p].pc = "done"
                      /\ hs'[p].rb = balances[u]
                      /\ UNCHANGED <<balances, duplicates>>]_vars

(* ------------------- refunds beside the daily reset -------------------- *)

RefundSteps(p) ==
    \/ TipCreateSteps(p)
    \/ VoteCheck(p)
    \/ VoteInsert(p)
    \/ ResolveRead(p)
    \/ ResolveExpire(p)
    \/ ResolveComplete(p)
    \/ RefundRead(p)
    \/ RefundWrite(p)
    \/ RefundLedger(p)

\* proposals, their votes and the daily reset, side by side
NextRefund ==
    \/ \E p \in Handlers, u \in BalUsers : StartTipCreate(p, u, MinStake)
    \/ \E p \in Handlers, u \in BalUsers, c \in {"accept", "decline"} :
          \E pid \in 1..Len(proposals) : StartTipVote(p, pid, u, c)
    \/ \E p \in Handlers : RefundSteps(p)
    \/ StartReset
    \/ ResetWrite
    \/ ResetLedger

SpecRefund == InitBal /\ [][NextRefund]_vars

\* a step of refund_tip_to_tip in the handler
RefundStep(p) ==
    hs[p].pc \in {"refund_read", "refund_write"} /\ hs'[p] # hs[p]

(* C31: the refund sets remaining to the remaining it read plus the amount *)
(* and spent_today to the spent_today it read minus the amount, or to 0    *)
(* when that is negative, so spent_today is never negative; it leaves debt *)
(* and daily_budget as stored and no other row changes; and it runs only   *)
(* in the resolution of a proposal on which every member's vote is an      *)
(* accept.                                                                 *)
RefundEffect ==
    /\ [](\A u \in Members : balances[u].spent_today >= 0)
    /\ [][\A p \in Handlers :
             /\ RefundStep(p) =>
                   /\ hs[p].op = "tvote"
                   /\ hs[p].ref \in 1..Len(proposals)
                   /\ hs[p].v = proposals[hs[p].ref].proposer
                   /\ hs[p].amt = proposals[hs[p].ref].stake
                   /\ \A m \in Members :
                         \E i \in 1..Len(votes) :
                            /\ votes[i].proposal = hs[p].ref
                            /\ votes[i].user = m
                   /\ \A i \in 1..Len(votes) :
                         votes[i].proposal = hs[p].ref => votes[i].vote = "accept"
             /\ (RefundStep(p) /\ hs[p].pc = "refund_write") =>
                   LET u == hs[p].v
                       read == hs[p].rb
                       a == hs[p].amt
                   IN /\ balances'[u].remaining = read.remaining + a
                      /\ balances'[u].spent_today =
                            (IF read.spent_today > a
                             THEN read.spent_today - a ELSE 0)
                      /\ balances'[u].debt = balances[u].debt
                      /\ balances'[u].daily_budget = balances[u].daily_budget
                      /\ \A w \in Users \ {u} : balances'[w] = balances[w]]_vars

\* a refund after the daily reset: spent_today was below the stake and is 0,
\* remaining is the fresh budget plus the stake
RefundFlooredSpent ==
    \E p \in Handlers :
        /\ hs[p].op = "tvote" /\ hs[p].pc = "done" /\ hs[p].out = "completed"
        /\ refunded[hs[p].ref] = 1
        /\ balances[hs[p].v].spent_today = 0
        /\ balances[hs[p].v].remaining = DefaultDailyBudget + hs[p].amt

(* --------------------------- daily_cc_reset ---------------------------- *)

\* the daily_reset ledger entries of a user
ResetEntries(u) ==
    LET S == {e \in BagToSet(ledger) : e.user = u /\ e.type = "daily_reset"}
    IN SumOver([e \in S |-> CopiesIn(e, ledger)], S)

\* the steps of a run of the job
ResetRunStarts == job' # job /\ job'.op = "reset" /\ nops' = nops + 1
ResetRunStep(pc) == job.op = "reset" /\ job.pc = pc /\ job' # job

(* C32: one run of the daily reset lists every balance row exactly once,   *)
(* and for each listed row in turn writes its reset once and then appends  *)
(* one daily_reset ledger entry of that user whose amount is the row's     *)
(* remaining after the reset; when the run has ended every member has      *)
(* received the same number of daily_reset entries.                        *)
ResetRunCoversEveryRow ==
    /\ []((job.op = "reset" /\ job.pc = "done")
             => \A u, w \in Members : ResetEntries(u) = ResetEntries(w))
    /\ [][/\ ResetRunStarts =>
                /\ Len(job'.list) = Cardinality(Members)
                /\ \A u \in Members :
                      \E i \in 1..Len(job'.list) :
                         /\ job'.list[i].user = u
                         /\ job'.list[i].row = balances[u]
                /\ job'.pc = "reset_write"
          /\ ResetRunStep("reset_write") =>
                /\ job'.list = job.list
                /\ job'.pc = "reset_ledger"
                /\ ledger' = ledger
                /\ \A w \in Users \ {job.list[1].user} : balances'[w] = balances[w]
          /\ ResetRunStep("reset_ledger") =>
                LET u == job.list[1].user
                IN /\ ledger' = ledger (+) SetToBag({LedgerEntry(u, "daily_reset",
                                               balances[u].remaining, NoRef)})
                   /\ balances' = balances
                   /\ job'.list = IF Len(job.list) = 1 THEN <<>> ELSE Tail(job.list)
                   /\ job'.pc = IF Len(job.list) = 1 THEN "done" ELSE "reset_write"]_vars

\* a run has ended: every member has the entry of the join and one of the
\* run, and a member in debt has an entry below the daily budget
ResetRunEntered ==
    /\ job.op = "reset" /\ job.pc = "done"
    /\ \A u \in Members : ResetEntries(u) = 2
    /\ \E u \in Members :
          /\ balances[u].remaining < balances[u].daily_budget
          /\ BagIn(LedgerEntry(u, "daily_reset", balances[u].remaining, NoRef),
                   ledger)

(* --------------------------- compute_streaks --------------------------- *)

\* the longest list of dates and the latest day (dates are day numbers)
MaxDates == 4
MaxDay == 5

\* mutant of the forward loop: a gap does not restart the count
RECURSIVE StreakScanKeepsCount(_, _, _, _)
StreakScanKeepsCount(ordered, idx, current, longest) ==
    IF idx > Len(ordered) THEN longest
    ELSE IF ordered[idx] - ordered[idx - 1] = 1
    THEN StreakScanKeepsCount(ordered, idx + 1, current + 1,
                              Max(longest, current + 1))
    ELSE StreakScanKeepsCount(ordered, idx + 1, current, longest)

\* the forward loop over ordered: the longest run of consecutive days
RECURSIVE StreakScan(_, _, _, _)
StreakScan(ordered, idx, current, longest) ==
    IF idx > Len(ordered) THEN longest
    ELSE IF ordered[idx] - ordered[idx - 1] = 1
    THEN StreakScan(ordered, idx + 1, current + 1, Max(longest, current + 1))
    ELSE StreakScan(ordered, idx + 1, 1, longest)

\* the backward loop over ordered: the run that ends at the last date
RECURSIVE StreakTrailing(_, _, _)
StreakTrailing(ordered, idx, trailing) ==
    IF idx < 2 THEN trailing
    ELSE IF ordered[idx] - ordered[idx - 1] = 1
    THEN StreakTrailing(ordered, idx - 1, trailing + 1)
    ELSE trailing

\* compute_streaks: (trailing, longest) over sorted(set(dates))
compute_streaks(dates) ==
    IF dates = <<>> THEN <<0, 0>>
    ELSE LET ordered == Ascending({dates[i] : i \in 1..Len(dates)})
         IN <<StreakTrailing(ordered, Len(ordered), 1),
              StreakScan(ordered, 2, 1, 1)>>

\* every list of at most MaxDates dates
DateLists == UNION {[1..n -> 1..MaxDay] : n \in 0..MaxDates}

InitStreaks ==
    /\ InitStore(BalRows)
    /\ CacheEmpty
    /\ \E d \in DateLists : streak = [IdleStreak EXCEPT !.pc = "call", !.dates = d]

\* the call returns
StreakCall ==
    /\ streak.pc = "call"
    /\ streak' = [streak EXCEPT !.pc = "done", !.ret = compute_streaks(streak.dates)]
    /\ UNCHANGED <<balVars, ledger, docVars, tipVars, elecVars, memberRows, now,
                   sunsets, cacheVars, hs, job, nops>>

NextStreaks == StreakCall

SpecStreaks == InitStreaks /\ [][NextStreaks]_vars

\* the days of the list, and whether k consecutive days ending at d are in it
DaysOf(dates) == {dates[i] : i \in 1..Len(dates)}
RunEndsAt(D, d, k) == \A j \in 0..(k - 1) : (d - j) \in D

(* C33: compute_streaks returns (0, 0) for an empty list; otherwise, over   *)
(* the distinct dates, longest is the length of the longest run of          *)
(* consecutive days and current is the length of the run that ends at the   *)
(* latest date, so 1 <= current <= longest; the result depends only on the  *)
(* set of dates, not on their order or on duplicates (it is the result for  *)
(* the distinct dates in ascending order).                                  *)
StreaksAreRuns ==
    streak.pc = "done" =>
        LET D == DaysOf(streak.dates)
            current == streak.ret[1]
            longest == streak.ret[2]
        IN IF D = {} THEN current = 0 /\ longest = 0
           ELSE LET last == CHOOSE d \in D : \A e \in D : e <= d
                IN /\ RunEndsAt(D, last, current)
                   /\ (last - current) \notin D
                   /\ \E d \in D : RunEndsAt(D, d, longest)
                   /\ \A d \in D : ~RunEndsAt(D, d, longest + 1)
                   /\ 1 <= current /\ current <= longest
                   /\ compute_streaks(Ascending(D)) = streak.ret

\* an unordered list with a duplicate and a gap: the last run is shorter
\* than the longest
StreakAfterGap ==
    /\ streak.pc = "done"
    /\ Len(streak.dates) > Cardinality(DaysOf(streak.dates))
    /\ \E i \in 1..(Len(streak.dates) - 1) : streak.dates[i] > streak.dates[i + 1]
    /\ streak.ret[1] < streak.ret[2]

(* ------------- a transfer whose second update is refused --------------- *)

\* mutant of the failure: the lender's update is undone before the raise
XferWriteBorrowerFailsRollsBack(p) ==
    /\ At(p, "respond", "xfer_write_b")
    /\ balances' = [balances EXCEPT ![hs[p].u] = hs[p].rb]
    /\ hs' = [hs EXCEPT ![p] = Fail(hs[p], ExecuteRaises("APIError"))]
    /\ UNCHANGED <<spentOk, duplicates>>
    /\ BalanceOnly

\* transfer: the store refuses the update of the borrower's row; execute
\* raises InvalidInputError, which neither transfer nor respond catches
XferWriteBorrowerFails(p) ==
    /\ At(p, "respond", "xfer_write_b")
    /\ hs' = [hs EXCEPT ![p] = Fail(hs[p], ExecuteRaises("APIError"))]
    /\ ReadOnly

\* borrow requests and responses, one request at a time, where the update
\* of the borrower's row may be refused
NextFault ==
    \/ /\ Quiet
       /\ \E p \in Handlers, b \in BalUsers, l \in BalUsers :
             \E a \in SeqAmounts \cup TransferAmounts : StartBorrowCreate(p, b, l, a)
    \/ /\ Quiet
       /\ \E p \in Handlers, u \in BalUsers, c \in {"approved", "declined"} :
             \E rid \in 1..Len(borrows) : StartRespond(p, rid, u, c)
    \/ \E p \in Handlers : BorrowSteps(p)
    \/ \E p \in Handlers : XferWriteBorrowerFails(p)

SpecFault == InitBal /\ [][NextFault]_vars

\* the handler's transfer raises at the update of the borrower's row
BorrowerWriteRaises(p) ==
    /\ hs[p].op = "respond" /\ hs[p].pc = "xfer_write_b"
    /\ hs'[p] # hs[p] /\ hs'[p].err # ""

\* the last respond raised at the update of the borrower's row
PartialTransfer(p) ==
    /\ hs[p].op = "respond" /\ hs[p].pc = "done"
    /\ hs[p].err = "INVALID_INPUT"

(* C34: when in a transfer the update of the lender's row succeeds and the *)
(* update of the borrower's row fails, nothing is undone: the respond      *)
(* raises, the lender's row stays lowered by the amount, the borrower's    *)
(* remaining and debt are as before, the request stays pending and has no  *)
(* borrow_given or borrow_received entry; a later approval of the same     *)
(* request by the lender is accepted and runs the transfer again.          *)
PartialTransferStays ==
    /\ [](\A p \in Handlers : PartialTransfer(p) =>
             /\ borrows[hs[p].ref].status = "pending"
             /\ ~BagIn(GivenEntry(hs[p].ref), ledger)
             /\ ~BagIn(ReceivedEntry(hs[p].ref), ledger))
    /\ [][\A p \in Handlers :
             /\ BorrowerWriteRaises(p) =>
                   /\ hs'[p].pc = "done"
                   /\ hs'[p].err = "INVALID_INPUT"
                   /\ UNCHANGED <<balances, ledger, borrows>>
                   /\ balances[hs[p].u].remaining = hs[p].rb.remaining - hs[p].amt
                   /\ balances[hs[p].u].spent_today =
                         hs[p].rb.spent_today + hs[p].amt
                   /\ balances[hs[p].v].remaining = hs[p].rb2.remaining
                   /\ balances[hs[p].v].debt = hs[p].rb2.debt
             /\ (PartialTransfer(p) /\ hs'[p] # hs[p]
                   /\ hs'[p].op = "respond" /\ hs'[p].choice = "approved"
                   /\ hs'[p].ref = hs[p].ref
                   /\ hs'[p].err # "FORBIDDEN") =>
                   hs'[p].pc = "xfer_read_l"]_vars

\* the same request was approved twice and both transfers raised: the
\* lender is debited twice, the borrower has received nothing
LenderDebitedTwice ==
    \E p \in Handlers :
        /\ PartialTransfer(p)
        /\ balances[hs[p].u].remaining = DefaultDailyBudget - 2 * hs[p].amt
        /\ balances[hs[p].v].remaining = DefaultDailyBudget
        /\ balances[hs[p].v].debt = 0

(* ---------------- proposals in a community of one or two ---------------- *)

\* the community right after its creation: the creator alone
OneRow == {<<"u1", "moderator">>}

InitQuorum == \E rows \in {OneRow, TwoRows} : InitCommunity(rows)

NextQuorum ==
    \/ \E p \in Handlers, u \in BalUsers : StartTipCreate(p, u, MinStake)
    \/ \E p \in Handlers, u \in BalUsers, c \in {"accept", "decline"} :
          \E pid \in 1..Len(proposals) : StartTipVote(p, pid, u, c)
    \/ \E p \in Handlers : RefundSteps(p)

SpecQuorum == InitQuorum /\ [][NextQuorum]_vars

(* C35: resolution follows every vote insert, the proposer's automatic     *)
(* accept included: whenever no operation is in progress, no proposal that *)
(* is active before its deadline has an accept vote of every member of the *)
(* community (such a proposal is completed and refunded), in particular    *)
(* when the proposer is the only member.                                   *)
UnanimousIsResolved ==
    Quiet =>
        \A pid \in 1..Len(proposals) :
            (proposals[pid].status = "active" /\ now <= proposals[pid].deadline)
                => ~(AllVoted(pid) /\ ~AnyDecline(pid))

(* C36: for each proposal the amount refunded to the proposer is 0 or the  *)
(* stake, and it is the stake only while the stored status is completed:   *)
(* a proposal that the deadline sweep or a late vote has set to expired is *)
(* never refunded, however the votes in flight interleave with the sweep.  *)
RefundOnlyCompleted ==
    /\ [](\A pid \in 1..Len(proposals) :
             /\ refunded[pid] * proposals[pid].stake \in {0, proposals[pid].stake}
             /\ refunded[pid] > 0 => proposals[pid].status = "completed")
    /\ [][\A pid \in 1..Len(proposals) :
             proposals[pid].status = "expired"
                => refunded'[pid] = refunded[pid]]_vars

(* ----------------------- a completed election -------------------------- *)

(* C37: a completed election is frozen: once its stored status is          *)
(* completed no election vote row is added for it and its winner_id never  *)
(* changes, whatever the interleaving of vote and close requests.          *)
CompletedElectionFrozen ==
    [][\A e \in 1..Len(elections) :
          elections[e].status = "completed"
             => /\ ElectionVotes(e)' = ElectionVotes(e)
                /\ elections'[e].winner = elections[e].winner]_vars

(* ------------------------- what changes a debt -------------------------- *)

\* a moderator and a council member
DebtRows == {<<"u1", "moderator">>, <<"u2", "council">>}

InitDebt == InitCommunity(DebtRows)

\* every kind of request and job of the service side by side: declarations,
\* proposals and their votes, a borrow request of u2 to u1 and u1's response,
\* the reset, the sunset, the deadline sweep, and an election
NextDebt ==
    \/ \E p \in Handlers, a \in DeclareAmounts : StartDeclare(p, "u2", a)
    \/ \E p \in Handlers : StartTipCreate(p, "u1", MinStake)
    \/ \E p \in Handlers, c \in {"accept", "decline"} :
          \E pid \in 1..Len(proposals) : StartTipVote(p, pid, "u2", c)
    \/ \E p \in Handlers, a \in SeqAmounts : StartBorrowCreate(p, "u2", "u1", a)
    \/ \E p \in Handlers, c \in {"approved", "declined"} :
          \E rid \in 1..Len(borrows) : StartRespond(p, rid, "u1", c)
    \/ \E p \in Handlers : LedgerSteps(p)
    \/ StartReset
    \/ ResetWrite
    \/ ResetLedger
    \/ StartSunset
    \/ SunsetCheck
    \/ SunsetInsert
    \/ SunsetUpdate
    \/ SunsetLedger
    \/ StartExpiry
    \/ ExpireWrite
    \/ Tick
    \/ \E p \in Handlers : StartElectionCreate(p, "u1")
    \/ \E p \in Handlers, e \in 1..Len(elections) :
          StartElectionVote(p, e, "u2", "u2")
    \/ \E p \in Handlers, e \in 1..Len(elections) :
          StartElectionClose(p, e, "u1")
    \/ \E p \in Handlers : ECreateCheck(p) \/ ECreateInsert(p) \/ ElectSteps(p)

SpecDebt == InitDebt /\ [][NextDebt]_vars

\* the transfer of request p writes the borrower's row in this step
BorrowerWrite(p) == AtPc(p, "xfer_write_b") /\ hs'[p] # hs[p]

\* the reset job writes its current row in this step
ResetWrites == job.op = "reset" /\ job.pc = "reset_write" /\ job' # job

\* reset_balance_with_debt: the repayment taken from the row passed in
Repayment(row) == IF row.debt > 0 THEN Min(row.daily_budget, row.debt) ELSE 0

(* C38: a balance's debt changes only in the borrower write of a transfer, *)
(* to the debt of the row the transfer read plus the amount, and in the    *)
(* write of a reset, to the debt of the row passed in minus the repayment; *)
(* no other step of any request or job changes a debt: not a spend, a      *)
(* refund, a sunset, a proposal or election request, nor the lender write  *)
(* of a transfer.                                                          *)
DebtFrame ==
    [][\A u \in Users :
          balances'[u].debt # balances[u].debt
             => \/ \E p \in Handlers :
                      /\ BorrowerWrite(p) /\ hs[p].v = u
                      /\ balances'[u].debt = hs[p].rb2.debt + hs[p].amt
                \/ /\ ResetWrites /\ job.list[1].user = u
                   /\ balances'[u].debt
                         = job.list[1].row.debt - Repayment(job.list[1].row)]_vars

\* a debt was raised by a transfer and a reset has repaid it
DebtRepaid ==
    /\ job.op = "reset" /\ job.pc = "reset_ledger"
    /\ job.list[1].row.debt > 0
    /\ balances[job.list[1].user].debt < job.list[1].row.debt

(* ------------------- the reset job beside a transfer ------------------- *)

(* C39: the reset job loses no debt to a transfer beside it: when the job  *)
(* writes the reset of a row, the stored debt, which holds every transfer  *)
(* committed so far, those committed since the job listed the row          *)
(* included, goes down by the repayment the reset applies and by nothing   *)
(* else.                                                                   *)
ResetKeepsTransferredDebt ==
    [][ResetWrites =>
          LET u == job.list[1].user
          IN balances'[u].debt
                = balances[u].debt - Repayment(job.list[1].row)]_vars

(* ------------------------- a respond refused --------------------------- *)

\* a request within the lender's balance and one beyond it
RespondAmounts == {MaxDeclare, DefaultDailyBudget + MaxDeclare}

NextRespond ==
    \/ \E p \in Handlers, a \in RespondAmounts : StartBorrowCreate(p, "u2", "u1", a)
    \/ \E p \in Handlers, u \in BalUsers, c \in {"approved", "declined"} :
          \E rid \in 1..Len(borrows) : StartRespond(p, rid, u, c)
    \/ \E p \in Handlers : BorrowSteps(p)

SpecRespond == InitBal /\ [][NextRespond]_vars

\* the respond request p raises Forbidden or InsufficientFunds in this step
RespondRefused(p) ==
    /\ hs'[p] # hs[p] /\ hs'[p].op = "respond"
    /\ hs'[p].err \in {"FORBIDDEN", "INSUFFICIENT_CC"}

(* C40: a respond by anyone but the request's lender fails with Forbidden, *)
(* and an approval for which transfer reads a lender's remaining below the *)
(* amount fails with InsufficientFunds; either failure comes before the    *)
(* request has written anything: the step that raises it and the reads     *)
(* before it leave the borrow request, every balance, the ledger and the   *)
(* messages unchanged.                                                     *)
RespondRefusedChangesNothing ==
    [][\A p \in Handlers :
          /\ (Free(p) /\ hs'[p] # hs[p] /\ hs'[p].op = "respond"
                 /\ hs'[p].actor # borrows[hs'[p].ref].lender)
                => (hs'[p].pc = "done" /\ hs'[p].err = "FORBIDDEN")
          /\ (At(p, "respond", "xfer_read_b") /\ hs'[p] # hs[p]
                 /\ hs[p].rb.remaining < hs[p].amt)
                => (hs'[p].pc = "done" /\ hs'[p].err = "INSUFFICIENT_CC")
          /\ RespondRefused(p)
                => /\ UNCHANGED <<borrows, balances, ledger, messages>>
                   /\ Free(p) \/ hs[p].pc = "xfer_read_b"
          /\ (hs[p].op = "respond" /\ hs'[p] # hs[p]
                 /\ hs[p].pc \in {"xfer_read_l", "xfer_read_b"})
                => UNCHANGED <<borrows, balances, ledger, messages>>]_vars

\* the borrower's respond was refused as forbidden and the lender's approval
\* for lack of funds, and the request is pending with no money moved
BothRefusalsSeen ==
    \E p \in Handlers, q \in Handlers :
        /\ hs[p].op = "respond" /\ hs[p].err = "FORBIDDEN"
        /\ hs[p].actor = borrows[hs[p].ref].borrower
        /\ hs[q].op = "respond" /\ hs[q].err = "INSUFFICIENT_CC"
        /\ hs[q].actor = borrows[hs[q].ref].lender
        /\ hs[q].ref = hs[p].ref
        /\ borrows[hs[q].ref].status = "pending"
        /\ \A u \in BalUsers : balances[u] = FreshBalance(DefaultDailyBudget)
        /\ \A e \in BagToSet(ledger) : e.type \notin {"borrow_given", "borrow_received"}

====
